---- MODULE Spec2Model ----
(***************************************************************************)
(* Model of the squid-space serial bootloader: the `dabble` state machine  *)
(* (crates/dabble/src/machine.rs), the settings block and wire types       *)
(* (crates/dabble/src/icd.rs) and the in-memory flash used by its tests.   *)
(*                                                                         *)
(* Representation.  TLC integers are 32-bit signed, so a u32 that carries  *)
(* a CRC is kept as its four little-endian bytes (a "word"); addresses and *)
(* lengths, which the model keeps small, are naturals.                     *)
(*                                                                         *)
(* A value that a definition uses more than once is handed to a further    *)
(* definition as a parameter (TLC evaluates a parameter once), so a        *)
(* function of the source is often modelled by a chain of definitions.     *)
(***************************************************************************)
EXTENDS Integers, Sequences, FiniteSets, TLC

(***************************************************************************)
(* Scale of the model.  The geometry of stm32g031_params() is kept         *)
(* (flash starts at 0, the application range ends where the flash ends,    *)
(* the chunk size is a power of two) with fewer and smaller chunks.        *)
(***************************************************************************)
\* log2 of data_chunk_size (11 on the device)
ChunkLog2 == 3
\* chunks below the application range (8 on the device)
BootChunks == 3
\* chunks in the application range (24 on the device)
AppChunks == 3
\* bytes of the settings page after its first four (2044 on the device)
SettingsMax == 34
\* bytes of the assembly buffer of the mainline loop (3072 on the device)
BufLen == 2
\* the longest reply frame, in bytes
MaxReply == 2

\* ---------------------------------------------------------------- bytes
\* a ^ b and a & b on naturals, bit by bit
RECURSIVE BitOp(_, _, _)
BitOp(f, a, b) ==
    IF a = 0 /\ b = 0 THEN 0
    ELSE 2 * BitOp(f, a \div 2, b \div 2) + f[a % 2][b % 2]

XorBit == [x \in 0..1 |-> [y \in 0..1 |-> (x + y) % 2]]
AndBit == [x \in 0..1 |-> [y \in 0..1 |-> x * y]]

\* a ^ b on bytes, tabulated
XorTable == [a \in 0..255 |-> [b \in 0..255 |-> BitOp(XorBit, a, b)]]

BitXor(a, b) == XorTable[a][b]

BitAndNone(a, b) == 0
BitAnd(a, b) == BitOp(AndBit, a, b)

\* u32::to_le_bytes of a natural below 2^31
ToWord(n) == << n % 256, (n \div 256) % 256, (n \div 65536) % 256, n \div 16777216 >>

\* the natural a word stands for, defined for words below 2^31
WordToNat(w) == w[1] + 256 * w[2] + 65536 * w[3] + 16777216 * w[4]

\* a word is below 2^31, so that WordToNat applies
WordIsSmall(w) == w[4] < 128

\* a < b and a <= b of two u32
WordLess(a, b) == \E i \in 1..4 : a[i] < b[i] /\ \A j \in (i + 1)..4 : a[j] = b[j]

WordLe(a, b) == a = b \/ WordLess(a, b)

\* the bytes of a + b from byte i on with the carry in, then the carry out
RECURSIVE WordAddFrom(_, _, _, _)
WordAddFrom(a, b, i, carry) ==
    IF i > 4 THEN << carry >>
    ELSE << (a[i] + b[i] + carry) % 256 >>
         \o WordAddFrom(a, b, i + 1, (a[i] + b[i] + carry) \div 256)

CheckedOf(sum) == [some |-> sum[5] = 0, v |-> SubSeq(sum, 1, 4)]

\* u32::checked_add: None when the sum is above u32::MAX
checked_add(a, b) == CheckedOf(WordAddFrom(a, b, 1, 0))

WordXor(a, b) == [i \in 1..4 |-> BitXor(a[i], b[i])]

\* x << 1 on a word, dropping the bit shifted out
WordShl1(w) ==
    << (2 * w[1]) % 256,
       (2 * w[2] + w[1] \div 128) % 256,
       (2 * w[3] + w[2] \div 128) % 256,
       (2 * w[4] + w[3] \div 128) % 256 >>

\* ---------------------------------------------------------------- CRC
\* CRC_32_CKSUM: width 32, poly 0x04C11DB7, init 0, no reflection,
\* xorout 0xFFFFFFFF
CrcPoly == << 183, 29, 193, 4 >>
CrcInit == << 0, 0, 0, 0 >>
CrcXorOut == << 255, 255, 255, 255 >>

RECURSIVE CrcBits(_, _)
CrcBits(w, n) ==
    IF n = 0 THEN w
    ELSE CrcBits(IF w[4] >= 128 THEN WordXor(WordShl1(w), CrcPoly) ELSE WordShl1(w), n - 1)

\* the crc crate's 256-entry lookup table for the algorithm
CrcTable == [i \in 0..255 |-> CrcBits(<< 0, 0, 0, i >>, 8)]

\* Digest::update with one byte: crc = (crc << 8) ^ table[(crc >> 24) ^ byte]
DigestByte(d, b) == WordXor(<< 0, d[1], d[2], d[3] >>, CrcTable[BitXor(d[4], b)])

\* Digest::update: the bytes are folded into the state in order (the fold is
\* split in halves and looks at the state it starts from first, which keeps
\* its evaluation shallow)
RECURSIVE DigestUpdate(_, _)
DigestUpdate(d, data) ==
    IF Len(d) # 4 \/ Len(data) = 0 THEN d
    ELSE IF Len(data) = 1 THEN DigestByte(d, data[1])
    ELSE LET h == Len(data) \div 2
         IN  DigestUpdate(DigestUpdate(d, SubSeq(data, 1, h)), SubSeq(data, h + 1, Len(data)))

\* Digest::finalize
DigestFinalize(d) == WordXor(d, CrcXorOut)

\* Crc::checksum
Checksum(data) == DigestFinalize(DigestUpdate(CrcInit, data))

\* ---------------------------------------------------------------- Parameters
data_chunk_size == 2 ^ ChunkLog2

\* Flash::PARAMETERS of the in-memory hardware (stm32g031_params)
PARAMETERS ==
    [ settings_max |-> SettingsMax,
      data_chunk_size |-> data_chunk_size,
      valid_flash_range |-> << 0, (BootChunks + AppChunks) * data_chunk_size >>,
      valid_app_range |-> << BootChunks * data_chunk_size,
                             (BootChunks + AppChunks) * data_chunk_size >>,
      read_max |-> data_chunk_size ]

AppLo == PARAMETERS.valid_app_range[1]
AppHi == PARAMETERS.valid_app_range[2]

\* ---------------------------------------------------------------- postcard
\* the five 7-bit groups of a u32, least significant first
VarintGroups(w) ==
    << w[1] % 128,
       (w[1] \div 128) + 2 * (w[2] % 64),
       (w[2] \div 64) + 4 * (w[3] % 32),
       (w[3] \div 32) + 8 * (w[4] % 16),
       w[4] \div 16 >>

\* the u32 made of five 7-bit groups (the last one at most 15)
GroupsToWord(g) ==
    << g[1] + 128 * (g[2] % 2),
       (g[2] \div 2) + 64 * (g[3] % 4),
       (g[3] \div 4) + 32 * (g[4] % 8),
       (g[4] \div 8) + 16 * g[5] >>

\* the number of groups a varint keeps: no leading zero groups, at least one
VarintLen(g) ==
    IF g[5] # 0 THEN 5 ELSE IF g[4] # 0 THEN 4
    ELSE IF g[3] # 0 THEN 3 ELSE IF g[2] # 0 THEN 2 ELSE 1

VarintBytes(g, n) == [i \in 1..n |-> IF i < n THEN g[i] + 128 ELSE g[i]]

VarintOfGroups(g) == VarintBytes(g, VarintLen(g))

\* postcard's varint of a u32: 7 bits a byte, least significant first,
\* 0x80 on every byte but the last
VarintU32(w) == VarintOfGroups(VarintGroups(w))

NoVarint == [ok |-> FALSE, val |-> << 0, 0, 0, 0 >>, rest |-> << >>]

\* postcard's try_take_varint_u32: [ok, val, rest]
RECURSIVE TakeVarintFrom(_, _, _)
TakeVarintFrom(bytes, i, g) ==
    IF i > 5 \/ i > Len(bytes) THEN NoVarint
    ELSE IF bytes[i] < 128
    THEN IF i = 5 /\ bytes[i] > 15 THEN NoVarint
         ELSE [ok |-> TRUE, val |-> GroupsToWord([g EXCEPT ![i] = bytes[i]]),
               rest |-> SubSeq(bytes, i + 1, Len(bytes))]
    ELSE TakeVarintFrom(bytes, i + 1, [g EXCEPT ![i] = bytes[i] % 128])

TakeVarint(bytes) == TakeVarintFrom(bytes, 1, << 0, 0, 0, 0, 0 >>)

\* a borrowed byte slice: length varint, then the bytes
EncodeSlice(b) == VarintU32(ToWord(Len(b))) \o b

NoSlice == [ok |-> FALSE, val |-> << >>, rest |-> << >>]

\* the bytes of a slice, l being its decoded length and what follows it
SliceAfterLen(l) ==
    IF ~l.ok \/ ~WordIsSmall(l.val) THEN NoSlice
    ELSE IF WordToNat(l.val) > Len(l.rest) THEN NoSlice
    ELSE [ok |-> TRUE, val |-> SubSeq(l.rest, 1, WordToNat(l.val)),
          rest |-> SubSeq(l.rest, WordToNat(l.val) + 1, Len(l.rest))]

\* deserialize a &[u8]: [ok, val, rest]
TakeSlice(bytes) == SliceAfterLen(TakeVarint(bytes))

\* ---------------------------------------------------------------- Setting
\* SettingVal, variants in declaration order
SettingValTags == << "U32", "F32", "ByteSlice", "AsciiSlice" >>

TagIndex(t) == CHOOSE i \in 1..Len(SettingValTags) : SettingValTags[i] = t

\* postcard::to_stdvec(&Setting)
EncodeSetting(stg) ==
    EncodeSlice(stg.name_ascii)
        \o << TagIndex(stg.val.tag) - 1 >>
        \o ( CASE stg.val.tag = "U32" -> VarintU32(stg.val.v)
               [] stg.val.tag = "F32" -> stg.val.v
               [] OTHER -> EncodeSlice(stg.val.v) )

NoSetting == [ok |-> FALSE, item |-> << >>, rest |-> << >>]

\* a Setting of variant t whose value decoded to v (a varint or a slice)
SettingWith(name, t, v) ==
    IF ~v.ok THEN NoSetting
    ELSE [ok |-> TRUE, item |-> [name_ascii |-> name, val |-> [tag |-> t, v |-> v.val]],
          rest |-> v.rest]

\* an f32: four bytes as they are
TakeF32(bytes) ==
    IF Len(bytes) < 4 THEN NoSlice
    ELSE [ok |-> TRUE, val |-> SubSeq(bytes, 1, 4), rest |-> SubSeq(bytes, 5, Len(bytes))]

\* the value of a Setting of variant t
SettingValue(name, t, bytes) ==
    CASE t = "U32" -> SettingWith(name, t, TakeVarint(bytes))
      [] t = "F32" -> SettingWith(name, t, TakeF32(bytes))
      [] OTHER -> SettingWith(name, t, TakeSlice(bytes))

\* the SettingVal after the name, tg being its decoded discriminant
SettingAfterTag(name, tg) ==
    IF ~tg.ok \/ ~WordIsSmall(tg.val) THEN NoSetting
    ELSE IF WordToNat(tg.val) > 3 THEN NoSetting
    ELSE SettingValue(name, SettingValTags[WordToNat(tg.val) + 1], tg.rest)

SettingAfterName(nm) ==
    IF ~nm.ok THEN NoSetting ELSE SettingAfterTag(nm.val, TakeVarint(nm.rest))

\* postcard::take_from_bytes::<Setting>: [ok, item, rest]
TakeSetting(bytes) == SettingAfterName(TakeSlice(bytes))

RECURSIVE EncodeSettings(_)
EncodeSettings(items) ==
    IF items = << >> THEN << >>
    ELSE EncodeSetting(Head(items)) \o EncodeSettings(Tail(items))

\* the CRC of a settings block: over the length, then the records
SettingsCrc(len, ser) == DigestFinalize(DigestUpdate(DigestUpdate(CrcInit, len), ser))

\* a block with the length before the CRC
SettingsBlockLenFirst(ser) == ToWord(Len(ser)) \o SettingsCrc(ToWord(Len(ser)), ser) \o ser

SettingsBlock(ser) == SettingsCrc(ToWord(Len(ser)), ser) \o ToWord(Len(ser)) \o ser

\* settings_to_vec: crc_le, len_le, records
settings_to_vec(items) == SettingsBlock(EncodeSettings(items))

\* split_u32le: [ok, val, rest]
split_u32le(sli) ==
    IF Len(sli) < 4 THEN [ok |-> FALSE, val |-> << 0, 0, 0, 0 >>, rest |-> << >>]
    ELSE [ok |-> TRUE, val |-> SubSeq(sli, 1, 4), rest |-> SubSeq(sli, 5, Len(sli))]

NoSettings == [ok |-> FALSE, remain |-> << >>]

\* the CRC check of settings_from_raw
SettingsCheckedPayloadOnly(exp_crc, exp_len, settings_bytes) ==
    IF Checksum(settings_bytes) = exp_crc
    THEN [ok |-> TRUE, remain |-> settings_bytes]
    ELSE NoSettings
SettingsChecked(exp_crc, exp_len, settings_bytes) ==
    IF SettingsCrc(exp_len, settings_bytes) = exp_crc
    THEN [ok |-> TRUE, remain |-> settings_bytes]
    ELSE NoSettings

\* settings_from_raw after its two split_u32le
SettingsAfterHeader(c, l) ==
    IF ~c.ok \/ ~l.ok THEN NoSettings
    ELSE IF ~WordIsSmall(l.val) THEN NoSettings
    ELSE IF WordToNat(l.val) > Len(l.rest) THEN NoSettings
    ELSE SettingsChecked(c.val, l.val, SubSeq(l.rest, 1, WordToNat(l.val)))

SettingsAfterCrc(c) == SettingsAfterHeader(c, split_u32le(c.rest))

\* settings_from_raw: [ok, remain], remain being what SettingsIter walks
settings_from_raw(sli) == SettingsAfterCrc(split_u32le(sli))

\* the records SettingsIter yields: it stops at the first one that fails to decode
RECURSIVE SettingsIter(_)
RECURSIVE SettingsIterNext(_)
SettingsIterNext(t) == IF ~t.ok THEN << >> ELSE << t.item >> \o SettingsIter(t.rest)
SettingsIter(remain) == SettingsIterNext(TakeSetting(remain))

\* ---------------------------------------------------------------- get_app_info
app_len_name == << 97, 112, 112, 95, 108, 101, 110 >>
app_crc_name == << 97, 112, 112, 95, 99, 114, 99 >>

RECURSIVE PopCount(_)
PopCount(n) == IF n = 0 THEN 0 ELSE (n % 2) + PopCount(n \div 2)

\* u32::is_power_of_two on a word
WordIsPowerOfTwo(w) == PopCount(w[1]) + PopCount(w[2]) + PopCount(w[3]) + PopCount(w[4]) = 1

\* the debug_assertions block of get_app_info: a check of the Parameters
params_fail_check(params) ==
    \/ params.read_max < params.data_chunk_size
    \/ params.valid_app_range[2] < params.valid_app_range[1] + params.data_chunk_size
    \/ params.data_chunk_size < 8
    \/ params.valid_app_range[2] <= params.valid_app_range[1]
    \/ PopCount(params.data_chunk_size) # 1

\* the for loop of get_app_info over the records, app_len and app_crc being
\* Options (<< >> or << v >>); it returns early on a duplicate
RECURSIVE AppInfoScan(_, _, _)
AppInfoScan(items, app_len, app_crc) ==
    IF items = << >> THEN [dup |-> FALSE, app_len |-> app_len, app_crc |-> app_crc]
    ELSE IF Head(items).name_ascii = app_len_name /\ Head(items).val.tag = "U32"
    THEN IF app_len # << >>
         THEN [dup |-> TRUE, app_len |-> app_len, app_crc |-> app_crc]
         ELSE AppInfoScan(Tail(items), << Head(items).val.v >>, app_crc)
    ELSE IF Head(items).name_ascii = app_crc_name /\ Head(items).val.tag = "U32"
    THEN IF app_crc # << >>
         THEN [dup |-> TRUE, app_len |-> app_len, app_crc |-> app_crc]
         ELSE AppInfoScan(Tail(items), app_len, << Head(items).val.v >>)
    ELSE AppInfoScan(Tail(items), app_len, app_crc)

\* too_long || too_short || not_pow2 of get_app_info
AppLenFailCheck(app_len, params) ==
    \/ ~WordIsSmall(app_len)
    \/ WordToNat(app_len) > params.valid_app_range[2] - params.valid_app_range[1]
    \/ WordToNat(app_len) < params.data_chunk_size
    \/ ~WordIsPowerOfTwo(app_len)

NotBootable(t) == [status |-> [tag |-> t], panic |-> FALSE]

AppInfoFoundMissingFirst(scan, params) ==
    IF scan.app_len = << >> THEN NotBootable("NoMissingSettings")
    ELSE IF scan.app_crc = << >> THEN NotBootable("NoMissingSettings")
    ELSE IF scan.dup THEN NotBootable("NoDuplicateSettings")
    ELSE IF params_fail_check(params) THEN [status |-> [tag |-> "Unsure"], panic |-> TRUE]
    ELSE IF AppLenFailCheck(scan.app_len[1], params) THEN NotBootable("NoInvalidSettings")
    ELSE [status |-> [tag |-> "Yes", crc32 |-> scan.app_crc[1],
                      length |-> WordToNat(scan.app_len[1])],
          panic |-> FALSE]

\* get_app_info after its for loop
AppInfoFound(scan, params) ==
    IF scan.dup THEN NotBootable("NoDuplicateSettings")
    ELSE IF scan.app_len = << >> THEN NotBootable("NoMissingSettings")
    ELSE IF scan.app_crc = << >> THEN NotBootable("NoMissingSettings")
    ELSE IF params_fail_check(params) THEN [status |-> [tag |-> "Unsure"], panic |-> TRUE]
    ELSE IF AppLenFailCheck(scan.app_len[1], params) THEN NotBootable("NoInvalidSettings")
    ELSE [status |-> [tag |-> "Yes", crc32 |-> scan.app_crc[1],
                      length |-> WordToNat(scan.app_len[1])],
          panic |-> FALSE]

AppInfoOf(si, params) ==
    IF ~si.ok THEN NotBootable("NoMissingSettings")
    ELSE AppInfoFound(AppInfoScan(SettingsIter(si.remain), << >>, << >>), params)

\* get_app_info: a Bootable, and whether the debug assertion failed
get_app_info(raw_stg, params) == AppInfoOf(settings_from_raw(raw_stg), params)

\* ---------------------------------------------------------------- hardware
\* AtomicHardware: the flash is a byte vector indexed by address (address a
\* is element a + 1), the settings page a byte vector of 4 + settings_max
Erased == 255
FlashFill == 165
SettingsFill == 204

InFlash(fl, start, len) == start + len <= Len(fl)

\* AtomicHardware::read_range (the slice; it panics unless InFlash)
read_range(fl, start, len) == SubSeq(fl, start + 1, start + len)

\* an erase that takes one byte more than it is asked to
erase_range_beyond(fl, start, len) ==
    [i \in 1..Len(fl) |-> IF i > start /\ i <= start + len + 1 THEN Erased ELSE fl[i]]

\* AtomicHardware::erase_range (it panics unless InFlash)
erase_range(fl, start, len) ==
    [i \in 1..Len(fl) |-> IF i > start /\ i <= start + len THEN Erased ELSE fl[i]]

\* the assertion of AtomicHardware::flash_range: the target is erased
IsErased(fl, start, len) ==
    InFlash(fl, start, len) /\ \A i \in (start + 1)..(start + len) : fl[i] = Erased

\* AtomicHardware::flash_range (it panics unless IsErased)
flash_range_shifted(fl, start, data) ==
    [i \in 1..Len(fl) |->
        IF i > start + 1 /\ i <= start + 1 + Len(data) THEN data[i - start - 1] ELSE fl[i]]
\* a programming that leaves out the last byte of data
flash_range_truncated(fl, start, data) ==
    [i \in 1..Len(fl) |->
        IF i > start /\ i < start + Len(data) THEN data[i - start] ELSE fl[i]]
flash_range(fl, start, data) ==
    [i \in 1..Len(fl) |->
        IF i > start /\ i <= start + Len(data) THEN data[i - start] ELSE fl[i]]

\* AtomicHardware::write_settings: the data replace the head of the page
write_settings(stg, data) ==
    [i \in 1..Len(stg) |-> IF i <= Len(data) THEN data[i] ELSE stg[i]]

CallRead(start, len) == [fn |-> "read_range", start |-> start, len |-> len]
CallReadSettings == [fn |-> "read_settings_raw"]

\* ---------------------------------------------------------------- is_bootable
\* the while loop of is_bootable: [digest, calls, panic]
RECURSIVE BootableLoopInclusive(_, _, _, _, _, _)
\* the loop with while cur <= end
BootableLoopInclusive(fl, cur, end, chunk_len, digest, calls) ==
    IF ~(cur <= end) THEN [digest |-> digest, calls |-> calls, panic |-> FALSE]
    ELSE IF ~InFlash(fl, cur, chunk_len)
    THEN [digest |-> digest, calls |-> Append(calls, CallRead(cur, chunk_len)), panic |-> TRUE]
    ELSE BootableLoopInclusive(fl, cur + chunk_len, end, chunk_len,
                               DigestUpdate(digest, read_range(fl, cur, chunk_len)),
                               Append(calls, CallRead(cur, chunk_len)))

RECURSIVE BootableLoop(_, _, _, _, _, _)
BootableLoop(fl, cur, end, chunk_len, digest, calls) ==
    IF ~(cur < end) THEN [digest |-> digest, calls |-> calls, panic |-> FALSE]
    ELSE IF ~InFlash(fl, cur, chunk_len)
    THEN [digest |-> digest, calls |-> Append(calls, CallRead(cur, chunk_len)), panic |-> TRUE]
    ELSE BootableLoop(fl, cur + chunk_len, end, chunk_len,
                      DigestUpdate(digest, read_range(fl, cur, chunk_len)),
                      Append(calls, CallRead(cur, chunk_len)))

BootableResultTrusting(app_crc, app_len, lp) ==
    [status |-> [tag |-> "Yes", crc32 |-> app_crc, length |-> app_len],
     calls |-> lp.calls, panic |-> lp.panic]

\* is_bootable after its loop: the comparison of the CRCs
BootableResult(app_crc, app_len, lp) ==
    [status |-> IF DigestFinalize(lp.digest) = app_crc
                THEN [tag |-> "Yes", crc32 |-> app_crc, length |-> app_len]
                ELSE [tag |-> "NoInvalidCrc"],
     calls |-> lp.calls, panic |-> lp.panic]

\* is_bootable after get_app_info
BootableAfter(fl, pre_check) ==
    IF pre_check.status.tag # "Yes"
    THEN [status |-> pre_check.status, calls |-> << CallReadSettings >>,
          panic |-> pre_check.panic]
    ELSE BootableResult(pre_check.status.crc32, pre_check.status.length,
                        BootableLoop(fl, PARAMETERS.valid_app_range[1],
                                     PARAMETERS.valid_app_range[1] + pre_check.status.length,
                                     PARAMETERS.data_chunk_size, CrcInit,
                                     << CallReadSettings >>))

\* Flash::is_bootable: [status, calls, panic]
is_bootable(fl, stg) == BootableAfter(fl, get_app_info(stg, PARAMETERS))

\* ---------------------------------------------------------------- Machine
\* Machine { mode, hardware }: mode is Mode (Idle, BootLoad(BootLoadMeta),
\* BootPending); flash and settings are the HwInner of the hardware
VARIABLES
    mode,       \* Machine.mode
    flash,      \* HwInner.flash
    settings,   \* HwInner.settings
    booted,     \* boot() has been called: control has left the bootloader
    fault,      \* a panic of the hardware or of an assertion has happened
    accepted,   \* history: payloads of the chunks accepted since the last start
    declared,   \* history: the records of the last settings block written
    pc,         \* mainline loop: where the loop is
    idx,        \* mainline loop: bytes of the frame in the assembly buffer
    tx,         \* mainline loop: bytes of the reply not yet written
    byte,       \* mainline loop: the byte last read, 0 or, for any other, 1
    input,      \* a function on its own: what it is applied to
    output      \* a function on its own: what it gave, << >> before the call

\* the variables of the mainline loop
loop == << pc, idx, tx, byte >>

\* the variables of a function taken on its own
io == << input, output >>

vars ==
    << mode, flash, settings, booted, fault, accepted, declared, pc, idx, tx, byte,
       input, output >>

Idle == [tag |-> "Idle"]
BootPending == [tag |-> "BootPending"]

Ok(t) == [ok |-> TRUE, tag |-> t]
Err(t) == [ok |-> FALSE, tag |-> t]

\* what a handler hands back: the reply, the new mode and hardware contents,
\* the hardware calls it made and whether one of them panicked
Out(r, md, fl, stg, cs, pn) ==
    [resp |-> r, mode |-> md, flash |-> fl, settings |-> stg, calls |-> cs, panic |-> pn]

\* a handler that touches neither mode nor hardware
Reply(m, r) == Out(r, m.mode, m.flash, m.settings, << >>, FALSE)

\* the match on boot_cmd in complete_inner and handle_boot
WillBootAny(cmd, boot_status) == cmd # "None"
WillBoot(cmd, boot_status) ==
    CASE cmd = "ForceBoot" -> TRUE
      [] cmd = "BootIfBootable" -> boot_status.tag = "Yes"
      [] OTHER -> FALSE

\* Machine::start_inner
start_inner_unchecked(m, sb) ==
    Out(Ok("BootloadStarted"),
        [tag |-> "BootLoad", digest_running |-> CrcInit, addr_start |-> sb.start_addr,
         addr_current |-> sb.start_addr, length |-> sb.length, exp_crc |-> sb.crc32],
        erase_range(m.flash, sb.start_addr, sb.length), m.settings,
        << [fn |-> "erase_range", start |-> sb.start_addr, len |-> sb.length] >>,
        ~InFlash(m.flash, sb.start_addr, sb.length))
start_inner(m, sb) ==
    LET max_app_len == PARAMETERS.valid_app_range[2] - PARAMETERS.valid_app_range[1]
        too_long == sb.length > max_app_len
        mask == PARAMETERS.data_chunk_size - 1
        not_full == BitAnd(sb.length, mask) # 0
    IN  IF sb.start_addr # PARAMETERS.valid_app_range[1]
        THEN Out(Err("BadStartAddress"), Idle, m.flash, m.settings, << >>, FALSE)
        ELSE IF too_long \/ not_full
        THEN Out(Err("BadLength"), Idle, m.flash, m.settings, << >>, FALSE)
        ELSE Out(Ok("BootloadStarted"),
                 [tag |-> "BootLoad", digest_running |-> CrcInit,
                  addr_start |-> sb.start_addr, addr_current |-> sb.start_addr,
                  length |-> sb.length, exp_crc |-> sb.crc32],
                 erase_range(m.flash, sb.start_addr, sb.length), m.settings,
                 << [fn |-> "erase_range", start |-> sb.start_addr, len |-> sb.length] >>,
                 ~InFlash(m.flash, sb.start_addr, sb.length))

\* Machine::handle_start_bootload
handle_start_bootload_validating(m, sb) ==
    CASE m.mode.tag = "Idle" -> start_inner(m, sb)
      [] m.mode.tag = "BootLoad" ->
            IF sb.start_addr # PARAMETERS.valid_app_range[1]
            THEN Reply(m, Err("BadStartAddress"))
            ELSE Reply(m, Err("BootloadInProgress"))
      [] m.mode.tag = "BootPending" -> Reply(m, Err("Oops"))
handle_start_bootload_restarting(m, sb) ==
    CASE m.mode.tag = "Idle" -> start_inner(m, sb)
      [] m.mode.tag = "BootLoad" -> start_inner(m, sb)
      [] m.mode.tag = "BootPending" -> Reply(m, Err("Oops"))
handle_start_bootload(m, sb) ==
    CASE m.mode.tag = "Idle" -> start_inner(m, sb)
      [] m.mode.tag = "BootLoad" -> Reply(m, Err("BootloadInProgress"))
      [] m.mode.tag = "BootPending" -> Reply(m, Err("Oops"))

\* Machine::data_chunk_inner from the calculation of the chunk's CRC on
data_chunk_checked_eager(m, meta, dc, calc_crc) ==
    IF calc_crc # dc.sub_crc32
    THEN Out([ok |-> FALSE, tag |-> "BadSubCrc",
              expected |-> dc.sub_crc32, actual |-> calc_crc],
             m.mode, flash_range(m.flash, dc.data_addr, dc.data), m.settings,
             << [fn |-> "flash_range", start |-> dc.data_addr, data |-> dc.data] >>,
             ~IsErased(m.flash, dc.data_addr, Len(dc.data)))
    ELSE Out([ok |-> TRUE, tag |-> "ChunkAccepted", data_addr |-> dc.data_addr,
              data_len |-> Len(dc.data), crc32 |-> calc_crc],
             [meta EXCEPT !.digest_running = DigestUpdate(@, dc.data),
                          !.addr_current = @ + PARAMETERS.data_chunk_size],
             flash_range(m.flash, dc.data_addr, dc.data), m.settings,
             << [fn |-> "flash_range", start |-> dc.data_addr, data |-> dc.data] >>,
             ~IsErased(m.flash, dc.data_addr, Len(dc.data)))
data_chunk_checked_restart(m, meta, dc, calc_crc) ==
    IF calc_crc # dc.sub_crc32
    THEN Reply(m, [ok |-> FALSE, tag |-> "BadSubCrc",
                   expected |-> dc.sub_crc32, actual |-> calc_crc])
    ELSE Out([ok |-> TRUE, tag |-> "ChunkAccepted", data_addr |-> dc.data_addr,
              data_len |-> Len(dc.data), crc32 |-> calc_crc],
             [meta EXCEPT !.digest_running = DigestUpdate(CrcInit, dc.data),
                          !.addr_current = @ + PARAMETERS.data_chunk_size],
             flash_range(m.flash, dc.data_addr, dc.data), m.settings,
             << [fn |-> "flash_range", start |-> dc.data_addr, data |-> dc.data] >>,
             ~IsErased(m.flash, dc.data_addr, Len(dc.data)))
data_chunk_checked_stuck(m, meta, dc, calc_crc) ==
    IF calc_crc # dc.sub_crc32
    THEN Reply(m, [ok |-> FALSE, tag |-> "BadSubCrc",
                   expected |-> dc.sub_crc32, actual |-> calc_crc])
    ELSE Out([ok |-> TRUE, tag |-> "ChunkAccepted", data_addr |-> dc.data_addr,
              data_len |-> Len(dc.data), crc32 |-> calc_crc],
             [meta EXCEPT !.digest_running = DigestUpdate(@, dc.data)],
             flash_range(m.flash, dc.data_addr, dc.data), m.settings,
             << [fn |-> "flash_range", start |-> dc.data_addr, data |-> dc.data] >>,
             ~IsErased(m.flash, dc.data_addr, Len(dc.data)))
data_chunk_checked(m, meta, dc, calc_crc) ==
    IF calc_crc # dc.sub_crc32
    THEN Reply(m, [ok |-> FALSE, tag |-> "BadSubCrc",
                   expected |-> dc.sub_crc32, actual |-> calc_crc])
    ELSE Out([ok |-> TRUE, tag |-> "ChunkAccepted", data_addr |-> dc.data_addr,
              data_len |-> Len(dc.data), crc32 |-> calc_crc],
             [meta EXCEPT !.digest_running = DigestUpdate(@, dc.data),
                          !.addr_current = @ + PARAMETERS.data_chunk_size],
             flash_range(m.flash, dc.data_addr, dc.data), m.settings,
             << [fn |-> "flash_range", start |-> dc.data_addr, data |-> dc.data] >>,
             ~IsErased(m.flash, dc.data_addr, Len(dc.data)))

\* Machine::data_chunk_inner
data_chunk_inner_len_first(m, meta, dc) ==
    IF Len(dc.data) # PARAMETERS.data_chunk_size
    THEN Reply(m, [ok |-> FALSE, tag |-> "IncorrectLength",
                   expected |-> PARAMETERS.data_chunk_size, actual |-> Len(dc.data)])
    ELSE IF dc.data_addr # meta.addr_current
    THEN Reply(m, [ok |-> FALSE, tag |-> "SkippedRange",
                   expected |-> meta.addr_current, actual |-> dc.data_addr])
    ELSE IF meta.addr_current >= meta.addr_start + meta.length
    THEN Reply(m, Err("TooManyChunks"))
    ELSE data_chunk_checked(m, meta, dc, Checksum(dc.data))
\* the checks without the one on the end of the session
data_chunk_inner_unbounded(m, meta, dc) ==
    IF dc.data_addr # meta.addr_current
    THEN Reply(m, [ok |-> FALSE, tag |-> "SkippedRange",
                   expected |-> meta.addr_current, actual |-> dc.data_addr])
    ELSE IF Len(dc.data) # PARAMETERS.data_chunk_size
    THEN Reply(m, [ok |-> FALSE, tag |-> "IncorrectLength",
                   expected |-> PARAMETERS.data_chunk_size, actual |-> Len(dc.data)])
    ELSE data_chunk_checked(m, meta, dc, Checksum(dc.data))
data_chunk_inner(m, meta, dc) ==
    IF dc.data_addr # meta.addr_current
    THEN Reply(m, [ok |-> FALSE, tag |-> "SkippedRange",
                   expected |-> meta.addr_current, actual |-> dc.data_addr])
    ELSE IF Len(dc.data) # PARAMETERS.data_chunk_size
    THEN Reply(m, [ok |-> FALSE, tag |-> "IncorrectLength",
                   expected |-> PARAMETERS.data_chunk_size, actual |-> Len(dc.data)])
    ELSE IF meta.addr_current >= meta.addr_start + meta.length
    THEN Reply(m, Err("TooManyChunks"))
    ELSE data_chunk_checked(m, meta, dc, Checksum(dc.data))

\* Machine::handle_data_chunk
handle_data_chunk(m, dc) ==
    CASE m.mode.tag = "Idle" -> Reply(m, Err("NoBootloadActive"))
      [] m.mode.tag = "BootLoad" -> data_chunk_inner(m, m.mode, dc)
      [] m.mode.tag = "BootPending" -> Reply(m, Err("NoBootloadActive"))

\* a completion that goes to BootPending whatever will_boot is
complete_confirm_pending(m, b, will_boot) ==
    Out([ok |-> TRUE, tag |-> "ConfirmComplete", will_boot |-> will_boot,
         boot_status |-> b.status],
        BootPending, m.flash, m.settings, b.calls, b.panic)

\* Machine::complete_inner once the image is good: b is what is_bootable gave
complete_confirm(m, b, will_boot) ==
    Out([ok |-> TRUE, tag |-> "ConfirmComplete", will_boot |-> will_boot,
         boot_status |-> b.status],
        IF will_boot THEN BootPending ELSE Idle,
        m.flash, m.settings, b.calls, b.panic)

complete_bootable(m, boot_cmd, b) == complete_confirm(m, b, WillBoot(boot_cmd, b.status))

\* Machine::complete_inner from the finalization of the running digest on
complete_checked_forced(m, meta, boot_cmd, calc_crc) ==
    IF calc_crc # meta.exp_crc
    THEN Out([ok |-> FALSE, tag |-> "BadFullCrc", expected |-> meta.exp_crc,
              actual |-> calc_crc],
             IF boot_cmd = "ForceBoot" THEN BootPending ELSE Idle,
             m.flash, m.settings, << >>, FALSE)
    ELSE complete_bootable(m, boot_cmd, is_bootable(m.flash, m.settings))
complete_checked(m, meta, boot_cmd, calc_crc) ==
    IF calc_crc # meta.exp_crc
    THEN Out([ok |-> FALSE, tag |-> "BadFullCrc", expected |-> meta.exp_crc,
              actual |-> calc_crc],
             Idle, m.flash, m.settings, << >>, FALSE)
    ELSE complete_bootable(m, boot_cmd, is_bootable(m.flash, m.settings))

\* Machine::complete_inner
complete_inner_dropping(m, meta, boot_cmd) ==
    IF meta.addr_current # meta.addr_start + meta.length
    THEN Out([ok |-> FALSE, tag |-> "IncompleteLoad", expected_len |-> meta.length,
              actual_len |-> meta.addr_current - meta.addr_start],
             Idle, m.flash, m.settings, << >>, FALSE)
    ELSE complete_checked(m, meta, boot_cmd, DigestFinalize(meta.digest_running))
complete_inner(m, meta, boot_cmd) ==
    IF meta.addr_current # meta.addr_start + meta.length
    THEN Reply(m, [ok |-> FALSE, tag |-> "IncompleteLoad", expected_len |-> meta.length,
                   actual_len |-> meta.addr_current - meta.addr_start])
    ELSE complete_checked(m, meta, boot_cmd, DigestFinalize(meta.digest_running))

\* Machine::handle_complete_bootload
handle_complete_bootload(m, boot) ==
    CASE m.mode.tag = "Idle" -> Reply(m, Err("NoBootloadActive"))
      [] m.mode.tag = "BootLoad" -> complete_inner(m, m.mode, boot)
      [] m.mode.tag = "BootPending" -> Reply(m, Err("NoBootloadActive"))

\* Machine::handle_write_settings
handle_write_settings_strict(m, data) ==
    IF Len(data) >= PARAMETERS.settings_max
    THEN Reply(m, [ok |-> FALSE, tag |-> "SettingsTooLong",
                   max |-> PARAMETERS.settings_max, actual |-> Len(data)])
    ELSE Out([ok |-> TRUE, tag |-> "SettingsAccepted", data_len |-> Len(data)],
             m.mode, m.flash, write_settings(m.settings, data),
             << [fn |-> "write_settings", data |-> data] >>,
             Len(data) > Len(m.settings))
handle_write_settings(m, data) ==
    IF Len(data) > PARAMETERS.settings_max
    THEN Reply(m, [ok |-> FALSE, tag |-> "SettingsTooLong",
                   max |-> PARAMETERS.settings_max, actual |-> Len(data)])
    ELSE Out([ok |-> TRUE, tag |-> "SettingsAccepted", data_len |-> Len(data)],
             m.mode, m.flash, write_settings(m.settings, data),
             << [fn |-> "write_settings", data |-> data] >>,
             Len(data) > Len(m.settings))

\* the Status with the end of the image looked for first
StatusOfEndFirst(md) ==
    IF md.tag # "BootLoad" THEN [tag |-> "Idle"]
    ELSE IF md.addr_current = md.addr_start + md.length
    THEN [tag |-> "AwaitingComplete"]
    ELSE IF md.addr_start = md.addr_current
    THEN [tag |-> "Started", start_addr |-> md.addr_start, length |-> md.length,
          crc32 |-> md.exp_crc]
    ELSE [tag |-> "Loading", start_addr |-> md.addr_start, next_addr |-> md.addr_current,
          partial_crc32 |-> DigestFinalize(md.digest_running),
          expected_crc32 |-> md.exp_crc]

\* the Status of Machine::handle_get_status
StatusOf(md) ==
    IF md.tag # "BootLoad" THEN [tag |-> "Idle"]
    ELSE IF md.addr_start = md.addr_current
    THEN [tag |-> "Started", start_addr |-> md.addr_start, length |-> md.length,
          crc32 |-> md.exp_crc]
    ELSE IF md.addr_current = md.addr_start + md.length
    THEN [tag |-> "AwaitingComplete"]
    ELSE [tag |-> "Loading", start_addr |-> md.addr_start, next_addr |-> md.addr_current,
          partial_crc32 |-> DigestFinalize(md.digest_running),
          expected_crc32 |-> md.exp_crc]

\* Machine::handle_get_status
handle_get_status(m) == Reply(m, [ok |-> TRUE, tag |-> "Status", status |-> StatusOf(m.mode)])

\* handle_read_range: the match on start_addr.checked_add(len)
read_end_check_exclusive(range, end) ==
    IF end.some /\ WordLess(end.v, ToWord(range[2])) THEN "ReadRange" ELSE "BadRangeEnd"

read_end_check(range, end) ==
    IF end.some /\ WordLe(end.v, ToWord(range[2])) THEN "ReadRange" ELSE "BadRangeEnd"

\* handle_read_range: what it decides for a valid_flash_range
read_range_check(range, start_addr, len) ==
    IF ~WordLe(ToWord(range[1]), start_addr)
    THEN "BadRangeStart"
    ELSE read_end_check(range, checked_add(start_addr, len))

\* the reply, with the read respond() makes for a ReadRange
read_range_reply(m, start_addr, len, verdict) ==
    IF verdict # "ReadRange"
    THEN Reply(m, Err(verdict))
    ELSE Out([ok |-> TRUE, tag |-> "ReadRange", start_addr |-> start_addr, len |-> len,
              data |-> read_range(m.flash, WordToNat(start_addr), WordToNat(len))],
             m.mode, m.flash, m.settings,
             << CallRead(WordToNat(start_addr), WordToNat(len)) >>,
             ~InFlash(m.flash, WordToNat(start_addr), WordToNat(len)))

\* Machine::handle_read_range; start_addr and len are u32 as words
handle_read_range(m, start_addr, len) ==
    read_range_reply(m, start_addr, len,
                     read_range_check(PARAMETERS.valid_flash_range, start_addr, len))

\* Machine::handle_abort_bootload
handle_abort_bootload_erasing(m) ==
    CASE m.mode.tag = "Idle" -> Reply(m, Err("NoBootloadActive"))
      [] m.mode.tag = "BootLoad" ->
            Out(Ok("BootloadAborted"), Idle,
                erase_range(m.flash, m.mode.addr_start, m.mode.length), m.settings,
                << [fn |-> "erase_range", start |-> m.mode.addr_start,
                    len |-> m.mode.length] >>,
                FALSE)
      [] m.mode.tag = "BootPending" -> Reply(m, Err("NoBootloadActive"))
handle_abort_bootload_keeping(m) ==
    CASE m.mode.tag = "Idle" -> Reply(m, Err("NoBootloadActive"))
      [] m.mode.tag = "BootLoad" -> Reply(m, Ok("BootloadAborted"))
      [] m.mode.tag = "BootPending" -> Reply(m, Err("NoBootloadActive"))
handle_abort_bootload_resetting(m) ==
    CASE m.mode.tag = "Idle" -> Reply(m, Err("NoBootloadActive"))
      [] m.mode.tag = "BootLoad" ->
            Out(Ok("BootloadAborted"), Idle, m.flash, m.settings, << >>, FALSE)
      [] m.mode.tag = "BootPending" ->
            Out(Err("NoBootloadActive"), Idle, m.flash, m.settings, << >>, FALSE)
handle_abort_bootload(m) ==
    CASE m.mode.tag = "Idle" -> Reply(m, Err("NoBootloadActive"))
      [] m.mode.tag = "BootLoad" ->
            Out(Ok("BootloadAborted"), Idle, m.flash, m.settings, << >>, FALSE)
      [] m.mode.tag = "BootPending" -> Reply(m, Err("NoBootloadActive"))

\* Machine::handle_boot
boot_confirm_conditional(m, cmd, b) ==
    Out([ok |-> TRUE, tag |-> "ConfirmBootCmd", will_boot |-> WillBoot(cmd, b.status),
         boot_status |-> b.status],
        IF WillBoot(cmd, b.status) THEN BootPending ELSE m.mode,
        m.flash, m.settings, b.calls, b.panic)
boot_confirm(m, cmd, b) ==
    Out([ok |-> TRUE, tag |-> "ConfirmBootCmd", will_boot |-> WillBoot(cmd, b.status),
         boot_status |-> b.status],
        BootPending, m.flash, m.settings, b.calls, b.panic)

handle_boot(m, cmd) == boot_confirm(m, cmd, is_bootable(m.flash, m.settings))

\* the arms of Machine::process that have no handler of their own
handle_ping(m, n) == Reply(m, [ok |-> TRUE, tag |-> "Pong", n |-> n])

handle_get_parameters(m) ==
    Reply(m, [ok |-> TRUE, tag |-> "Parameters", parameters |-> PARAMETERS])

\* GetSettings answered out of a session only
handle_get_settings_idle_only(m) ==
    IF m.mode.tag = "BootLoad"
    THEN Reply(m, Err("BootloadInProgress"))
    ELSE Out([ok |-> TRUE, tag |-> "Settings", data |-> m.settings],
             m.mode, m.flash, m.settings, << CallReadSettings >>, FALSE)

\* GetSettings: respond() fills the reply from read_settings_raw
handle_get_settings(m) ==
    Out([ok |-> TRUE, tag |-> "Settings", data |-> m.settings],
        m.mode, m.flash, m.settings, << CallReadSettings >>, FALSE)

\* IsBootable ending the session
bootable_status_resetting(m, b) ==
    Out([ok |-> TRUE, tag |-> "BootableStatus", status |-> b.status],
        Idle, m.flash, m.settings, b.calls, b.panic)
bootable_status(m, b) ==
    Out([ok |-> TRUE, tag |-> "BootableStatus", status |-> b.status],
        m.mode, m.flash, m.settings, b.calls, b.panic)

\* IsBootable: the reply is what is_bootable gave
handle_is_bootable(m) == bootable_status(m, is_bootable(m.flash, m.settings))

\* Err(e) => Err(ResponseError::LineNak(e))
handle_line_error(m, e) == Reply(m, [ok |-> FALSE, tag |-> "LineNak", error |-> e])

\* Machine::process, rq being what decode_in_place made of the frame: a
\* Request, or the Error it failed with
process(m, rq) ==
    CASE rq.tag = "Ping" -> handle_ping(m, rq.n)
      [] rq.tag = "GetParameters" -> handle_get_parameters(m)
      [] rq.tag = "StartBootload" -> handle_start_bootload(m, rq)
      [] rq.tag = "DataChunk" -> handle_data_chunk(m, rq)
      [] rq.tag = "CompleteBootload" -> handle_complete_bootload(m, rq.boot)
      [] rq.tag = "GetSettings" -> handle_get_settings(m)
      [] rq.tag = "WriteSettings" -> handle_write_settings(m, rq.data)
      [] rq.tag = "GetStatus" -> handle_get_status(m)
      [] rq.tag = "ReadRange" -> handle_read_range(m, rq.start_addr, rq.len)
      [] rq.tag = "AbortBootload" -> handle_abort_bootload(m)
      [] rq.tag = "IsBootable" -> handle_is_bootable(m)
      [] rq.tag = "Boot" -> handle_boot(m, rq.cmd)
      [] rq.tag = "LineError" -> handle_line_error(m, rq.error)

\* Machine::check_after_send: whether it boots, and the hardware calls it makes
check_after_send(m) ==
    IF m.mode.tag = "BootPending"
    THEN [booted |-> TRUE, calls |-> << [fn |-> "boot"] >>]
    ELSE [booted |-> FALSE, calls |-> << >>]

\* ---------------------------------------------------------------- inputs
\* The requests the model sends.  Chunk payloads are the [16; n] and [18; n]
\* of test::do_a_bootload; an image of n chunks alternates them.
ChunkOf(b) == [i \in 1..data_chunk_size |-> b]

PayloadByte(k) == 16 + 2 * (k % 2)

RECURSIVE Image(_)
Image(n) == IF n = 0 THEN << >> ELSE Image(n - 1) \o ChunkOf(PayloadByte(n - 1))

ImageCrc == [n \in 0..AppChunks |-> Checksum(Image(n))]

\* 0xDEADBEEF
BadCrc == << 239, 190, 173, 222 >>

U32Setting(name, w) == [name_ascii |-> name, val |-> [tag |-> "U32", v |-> w]]

\* the settings of test::do_a_bootload for an image of n chunks
Decl(n) ==
    << U32Setting(app_len_name, ToWord(n * data_chunk_size)),
       U32Setting(app_crc_name, ImageCrc[n]) >>

StartRequests ==
    {[tag |-> "StartBootload", start_addr |-> AppLo, length |-> n * data_chunk_size,
      crc32 |-> ImageCrc[n]] : n \in 0..AppChunks}
    \cup {[tag |-> "StartBootload", start_addr |-> a, length |-> l, crc32 |-> BadCrc] :
            a \in {0, AppLo},
            l \in {data_chunk_size, data_chunk_size + 1, (AppChunks + 1) * data_chunk_size}}

ChunkDataChoices ==
    {[data |-> ChunkOf(PayloadByte(k)), sub_crc32 |-> Checksum(ChunkOf(PayloadByte(k)))] :
        k \in 0..1}
    \cup {[data |-> ChunkOf(PayloadByte(0)), sub_crc32 |-> BadCrc],
          [data |-> Tail(ChunkOf(PayloadByte(0))), sub_crc32 |-> BadCrc],
          [data |-> Tail(ChunkOf(PayloadByte(0))),
           sub_crc32 |-> Checksum(Tail(ChunkOf(PayloadByte(0))))]}

DataRequests ==
    {[tag |-> "DataChunk", data_addr |-> AppLo + k * data_chunk_size,
      sub_crc32 |-> c.sub_crc32, data |-> c.data] :
        k \in 0..AppChunks, c \in ChunkDataChoices}

BootOptions == {"None", "BootIfBootable", "ForceBoot"}

CompleteRequests == {[tag |-> "CompleteBootload", boot |-> b] : b \in BootOptions}

\* record lists whose settings_to_vec is sent in WriteSettings; the last one
\* is longer than settings_max
SettingsChoices ==
    {Decl(n) : n \in 0..AppChunks}
    \cup {Decl(1) \o << U32Setting(app_len_name, ToWord(data_chunk_size)) >>}

\* items is not on the wire: it names the records data was made from
\* n bytes that are no settings block
RawSettings(n) == [i \in 1..n |-> 0]

WriteRequests ==
    {[tag |-> "WriteSettings", data |-> settings_to_vec(items), items |-> items] :
        items \in SettingsChoices}
    \cup {[tag |-> "WriteSettings", data |-> RawSettings(n), items |-> << >>] :
            n \in {PARAMETERS.settings_max, PARAMETERS.settings_max + 1}}

\* u32::MAX and 2^31
WordMax == << 255, 255, 255, 255 >>

WordHalf == << 0, 0, 0, 128 >>

\* start_addr and len: inside the flash, up to its end, across its end, up
\* to and across the end of u32, and the whole flash
ReadRanges ==
    {<< ToWord(0), ToWord(data_chunk_size) >>,
     << ToWord(AppHi - data_chunk_size), ToWord(data_chunk_size) >>,
     << ToWord(AppHi - 1), ToWord(2) >>,
     << ToWord(AppLo), ToWord(0) >>,
     << ToWord(AppHi), ToWord(0) >>,
     << ToWord(0), WordMax >>,
     << ToWord(1), WordMax >>,
     << WordMax, ToWord(0) >>,
     << WordMax, ToWord(1) >>,
     << WordHalf, WordHalf >>,
     << ToWord(0), ToWord(PARAMETERS.valid_flash_range[2]) >>}

ReadRequests ==
    {[tag |-> "ReadRange", start_addr |-> r[1], len |-> r[2]] : r \in ReadRanges}

BootRequests == {[tag |-> "Boot", cmd |-> c] : c \in BootOptions \ {"None"}}

LineErrors ==
    {[tag |-> "Cobs"], [tag |-> "Underfill"], [tag |-> "PostcardDecode"],
     [tag |-> "Crc", expected |-> BadCrc, actual |-> CrcXorOut]}

LineRequests == {[tag |-> "LineError", error |-> e] : e \in LineErrors}

QueryRequests ==
    {[tag |-> "Ping", n |-> 7], [tag |-> "GetParameters"], [tag |-> "GetSettings"],
     [tag |-> "GetStatus"], [tag |-> "IsBootable"]}

AbortRequest == [tag |-> "AbortBootload"]

Requests ==
    StartRequests \cup DataRequests \cup CompleteRequests \cup WriteRequests
        \cup ReadRequests \cup BootRequests \cup LineRequests \cup QueryRequests
        \cup {AbortRequest}

\* ---------------------------------------------------------------- actions
\* the machine as the handlers see it
M == [mode |-> mode, flash |-> flash, settings |-> settings]

\* Machine::new on AtomicHardware::new
Init ==
    /\ mode = Idle
    /\ flash = [i \in 1..PARAMETERS.valid_flash_range[2] |-> FlashFill]
    /\ settings = [i \in 1..(4 + PARAMETERS.settings_max) |-> SettingsFill]
    /\ booted = FALSE
    /\ fault = FALSE
    /\ accepted = << >>
    /\ declared = << >>
    /\ pc = "byte"
    /\ idx = 0
    /\ tx = 0
    /\ byte = 0
    /\ input = << >>
    /\ output = << >>

\* the machine can be called: it has neither booted nor panicked
Live == ~booted /\ ~fault

\* the machine after a call of Machine::process that gave out
Processed(rq, out) ==
    /\ mode' = out.mode
    /\ flash' = out.flash
    /\ settings' = out.settings
    /\ fault' = out.panic
    /\ accepted' = CASE out.resp.tag = "BootloadStarted" -> << >>
                     [] out.resp.tag = "ChunkAccepted" -> Append(accepted, rq.data)
                     [] OTHER -> accepted
    /\ declared' = IF out.resp.tag = "SettingsAccepted" THEN rq.items ELSE declared
    /\ UNCHANGED << booted, io >>

\* one call of Machine::process on a frame that decodes to rq
Process(rq) == Live /\ Processed(rq, process(M, rq)) /\ UNCHANGED loop

StartBootload == \E rq \in StartRequests : Process(rq)

DataChunk == \E rq \in DataRequests : Process(rq)

CompleteBootload == \E rq \in CompleteRequests : Process(rq)

WriteSettings == \E rq \in WriteRequests : Process(rq)

AbortBootload == Process(AbortRequest)

Boot == \E rq \in BootRequests : Process(rq)

\* the requests and the undecodable frames that change nothing
Query == \E rq \in QueryRequests \cup ReadRequests \cup LineRequests : Process(rq)

\* one call of Machine::check_after_send
CheckAfterSend ==
    /\ Live
    /\ booted' = check_after_send(M).booted
    /\ UNCHANGED << mode, flash, settings, fault, accepted, declared >>
    /\ UNCHANGED << loop, io >>

Next ==
    \/ StartBootload
    \/ DataChunk
    \/ CompleteBootload
    \/ WriteSettings
    \/ AbortBootload
    \/ Boot
    \/ Query
    \/ CheckAfterSend

Spec == Init /\ [][Next]_vars

\* ---------------------------------------------------------------- mainline loop
\* The 'process loop of the bootloader binary, one step at a time.  The
\* bytes of a frame are counted, not kept: the frame that ends with the
\* terminator stands for any request, or any line error, of the input set,
\* and its reply, which fits the buffer, for a frame of 1..MaxReply bytes.
machine == << mode, flash, settings, booted, fault, accepted, declared >>

\* a full buffer handed to process as it is
MainOverfillProcessed ==
    /\ Live
    /\ pc = "byte"
    /\ idx = BufLen
    /\ pc' = "process"
    /\ UNCHANGED << machine, idx, tx, byte, io >>

\* the buffer is full and no terminator came: continue 'process
MainOverfill ==
    /\ Live
    /\ pc = "byte"
    /\ idx = BufLen
    /\ idx' = 0
    /\ UNCHANGED << machine, pc, tx, byte, io >>

\* one byte is read into the buffer; a 0x00 ends the frame
MainByte ==
    /\ Live
    /\ pc = "byte"
    /\ idx < BufLen
    /\ idx' = idx + 1
    /\ \E b \in {0, 1} : byte' = b /\ pc' = IF b = 0 THEN "process" ELSE "byte"
    /\ UNCHANGED << machine, tx, io >>

\* machine.process(buf); idx is not read again in this iteration
MainProcessUnsent ==
    /\ Live
    /\ pc = "process"
    /\ \E rq \in Requests : Processed(rq, process(M, rq))
    /\ \E n \in 1..MaxReply : tx' = n
    /\ pc' = "check"
    /\ idx' = 0
    /\ UNCHANGED byte
MainProcess ==
    /\ Live
    /\ pc = "process"
    /\ \E rq \in Requests : Processed(rq, process(M, rq))
    /\ \E n \in 1..MaxReply : tx' = n
    /\ pc' = "write"
    /\ idx' = 0
    /\ UNCHANGED byte

\* one byte of the reply is written to the transport
MainWrite ==
    /\ Live
    /\ pc = "write"
    /\ tx' = tx - 1
    /\ pc' = IF tx = 1 THEN "check" ELSE "write"
    /\ UNCHANGED << machine, idx, byte, io >>

\* machine.check_after_send(), then, if it returns, the next iteration
MainCheck ==
    /\ Live
    /\ pc = "check"
    /\ booted' = check_after_send(M).booted
    /\ pc' = IF check_after_send(M).booted THEN "check" ELSE "byte"
    /\ UNCHANGED << mode, flash, settings, fault, accepted, declared, idx, tx, byte, io >>

MainNext ==
    \/ MainOverfill
    \/ MainByte
    \/ MainProcess
    \/ MainWrite
    \/ MainCheck

MainSpec == Init /\ [][MainNext]_vars

\* ---------------------------------------------------------------- app info alone
\* is_bootable and get_app_info over hardware of given contents: the flash
\* holds an image, the settings page a block made of input.items and the
\* bytes input.tail after it, or the raw bytes input.raw
F32Setting(name, b) == [name_ascii |-> name, val |-> [tag |-> "F32", v |-> b]]

\* b"are", the U32 record of settings_smoke
are_name == << 97, 114, 101 >>

Others == << U32Setting(are_name, << 120, 86, 52, 18 >>) >>

Len1(n) == << U32Setting(app_len_name, ToWord(n * data_chunk_size)) >>

Crc1(n) == << U32Setting(app_crc_name, ImageCrc[n]) >>

\* app_len values that are no chunk count within the range: zero, half a
\* chunk, a length above the range, 2^31
OddLens ==
    {ToWord(0), ToWord(data_chunk_size \div 2),
     ToWord(2 * (AppHi - AppLo) + 2 * data_chunk_size), WordHalf}

InfoItems ==
    {<< >>, Len1(1), Crc1(1), Others}
    \cup {Len1(n) \o Crc1(k) : n \in 0..AppChunks, k \in 1..2}
    \cup {Crc1(n) \o Len1(n) : n \in 1..2}
    \cup {<< U32Setting(app_len_name, w) >> \o Crc1(1) : w \in OddLens}
    \cup {Len1(1) \o Len1(1) \o Crc1(1), Len1(1) \o Crc1(1) \o Len1(2),
          Len1(1) \o Crc1(1) \o Crc1(1), Len1(1) \o Len1(1),
          Len1(0) \o Len1(1) \o Crc1(1), Crc1(1) \o Crc1(2)}
    \cup {Others \o Len1(n) \o Crc1(n) : n \in 0..2}
    \cup {Len1(n) \o Others \o Crc1(n) \o Others : n \in 1..2}
    \cup {<< F32Setting(app_len_name, ToWord(data_chunk_size)) >> \o Len1(1) \o Crc1(1),
          << F32Setting(app_len_name, ToWord(data_chunk_size)) >> \o Crc1(1),
          Len1(1) \o Crc1(1) \o << F32Setting(app_crc_name, ImageCrc[1]) >>,
          Len1(1) \o << F32Setting(app_crc_name, ImageCrc[1]) >>}

\* a block and what follows it in the page
PageOf(items, tail) == settings_to_vec(items) \o tail

\* a block with its CRC field spoilt
Spoilt(block) == [block EXCEPT ![1] = (@ + 1) % 256]

\* pages that hold no block: never written, too short, a length beyond the
\* page, a CRC that does not match
RawPages ==
    {[i \in 1..(4 + PARAMETERS.settings_max) |-> SettingsFill],
     << >>,
     SubSeq(settings_to_vec(Len1(1) \o Crc1(1)), 1, 7),
     SubSeq(settings_to_vec(Len1(1) \o Crc1(1)), 1, Len(settings_to_vec(Len1(1) \o Crc1(1))) - 1),
     Spoilt(settings_to_vec(Len1(1) \o Crc1(1))),
     RawSettings(PARAMETERS.settings_max)}

PageTails == {<< >>, << SettingsFill, SettingsFill, SettingsFill, SettingsFill >>}

InfoInputs ==
    {[kind |-> "block", items |-> xs, tail |-> t] : xs \in InfoItems, t \in PageTails}
    \cup {[kind |-> "raw", raw |-> p] : p \in RawPages}

PageIn(i) == IF i.kind = "block" THEN PageOf(i.items, i.tail) ELSE i.raw

\* the flash with the image of AppChunks chunks, and the flash as built
FlashWith(bytes) ==
    [i \in 1..PARAMETERS.valid_flash_range[2] |->
        IF i > AppLo /\ i <= AppLo + Len(bytes) THEN bytes[i - AppLo] ELSE FlashFill]

FlashChoices == {FlashWith(Image(AppChunks)), FlashWith(<< >>)}

BootableInit ==
    /\ mode = Idle
    /\ flash \in FlashChoices
    /\ input \in InfoInputs
    /\ settings = PageIn(input)
    /\ output = << >>
    /\ booted = FALSE
    /\ fault = FALSE
    /\ accepted = << >>
    /\ declared = << >>
    /\ pc = "byte"
    /\ idx = 0
    /\ tx = 0
    /\ byte = 0

\* get_app_info(self.read_settings_raw(), &Self::PARAMETERS)
GetAppInfo ==
    /\ output = << >>
    /\ output' = << [fn |-> "get_app_info", ret |-> get_app_info(settings, PARAMETERS)] >>
    /\ UNCHANGED << machine, loop, input >>

\* self.hardware.is_bootable()
IsBootable ==
    /\ output = << >>
    /\ output' = << [fn |-> "is_bootable", ret |-> is_bootable(flash, settings)] >>
    /\ UNCHANGED << machine, loop, input >>

BootableNext == GetAppInfo \/ IsBootable

BootableSpec == BootableInit /\ [][BootableNext]_vars

\* ---------------------------------------------------------------- COBS
\* the longest run of data bytes one code byte covers
CobsRun == 254

\* the smaller of two numbers
Least(a, b) == IF a < b THEN a ELSE b

\* the number of non-zero bytes data starts with, at most CobsRun
NonZeroRun(data) ==
    CHOOSE k \in 0..Least(CobsRun, Len(data)) :
        /\ k = CobsRun \/ k = Len(data) \/ data[k + 1] = 0
        /\ \A j \in 1..k : data[j] # 0

RECURSIVE CobsEncode(_)
RECURSIVE CobsBlock(_, _)
\* a block whose full run swallows the byte after it, as a shorter one does
CobsBlockSwallowing(data, k) ==
    IF k = Len(data)
    THEN << k + 1 >> \o data
    ELSE << k + 1 >> \o SubSeq(data, 1, k) \o CobsEncode(SubSeq(data, k + 2, Len(data)))

\* one block: the code byte, the k bytes of the run, then what follows; a
\* full run is followed by no zero, a shorter one swallows the zero after it
CobsBlock(data, k) ==
    IF k = CobsRun
    THEN << 255 >> \o SubSeq(data, 1, k) \o CobsEncode(SubSeq(data, k + 1, Len(data)))
    ELSE IF k = Len(data)
    THEN << k + 1 >> \o data
    ELSE << k + 1 >> \o SubSeq(data, 1, k) \o CobsEncode(SubSeq(data, k + 2, Len(data)))

\* the Cobs flavor: the stuffed bytes, without the terminator
CobsEncode(data) == IF data = << >> THEN << 1 >> ELSE CobsBlock(data, NonZeroRun(data))

\* the index of the first 0x00 of buf, Len(buf) + 1 if there is none
FirstZero(buf) ==
    CHOOSE i \in 1..(Len(buf) + 1) :
        /\ i = Len(buf) + 1 \/ buf[i] = 0
        /\ \A j \in 1..(i - 1) : buf[j] # 0

\* the bytes of one block before the bytes of the blocks after it
CobsDecodeRest(head, tail) ==
    IF ~tail.ok THEN tail ELSE [ok |-> TRUE, data |-> head \o tail.data]

RECURSIVE CobsDecodeFrom(_, _, _)
\* cobs::decode_in_place from source index i (1-based), src_end being the
\* index of the terminator: [ok, data]
CobsDecodeFrom(buf, i, src_end) ==
    IF i >= src_end THEN [ok |-> TRUE, data |-> << >>]
    ELSE IF i + buf[i] > src_end /\ buf[i] # 1 THEN [ok |-> FALSE, data |-> << >>]
    ELSE CobsDecodeRest(SubSeq(buf, i + 1, i + buf[i] - 1)
                            \o (IF buf[i] # 255 /\ i + buf[i] < src_end
                                THEN << 0 >> ELSE << >>),
                        CobsDecodeFrom(buf, i + buf[i], src_end))

\* cobs::decode_in_place: the decoded bytes up to the first 0x00 of buf
cobs_decode_in_place(buf) == CobsDecodeFrom(buf, 1, FirstZero(buf))

\* ---------------------------------------------------------------- wire format
\* The types of icd.rs as postcard lays them out.  A field is << name, kind >>;
\* its kind is "nat" (a u32 or usize held as a natural, below 2^31), "word" (a
\* u32 held as four bytes), "bytes" (&[u8]), "bool", "range" ((u32, u32)),
\* "cmd" (BootCommand), "optcmd" (Option<BootCommand>), "Parameters", "Result"
\* or the name of an enum, whose variants are numbered in declaration order.
Variant(t, fs) == [tag |-> t, fields |-> fs]

Unit(t) == Variant(t, << >>)

BootCommands == << "BootIfBootable", "ForceBoot" >>

RequestVariants ==
    << Variant("Ping", << << "n", "nat" >> >>),
       Unit("GetParameters"),
       Variant("StartBootload",
               << << "start_addr", "nat" >>, << "length", "nat" >>, << "crc32", "word" >> >>),
       Variant("DataChunk",
               << << "data_addr", "nat" >>, << "sub_crc32", "word" >>, << "data", "bytes" >> >>),
       Variant("CompleteBootload", << << "boot", "optcmd" >> >>),
       Unit("GetSettings"),
       Variant("WriteSettings", << << "data", "bytes" >> >>),
       Unit("GetStatus"),
       Variant("ReadRange", << << "start_addr", "word" >>, << "len", "word" >> >>),
       Unit("AbortBootload"),
       Unit("IsBootable"),
       Variant("Boot", << << "cmd", "cmd" >> >>) >>

ErrorVariants ==
    << Unit("Underfill"), Unit("Overfill"), Unit("PostcardDecode"), Unit("Cobs"),
       Variant("Crc", << << "expected", "word" >>, << "actual", "word" >> >>),
       Unit("LogicError") >>

BootableVariants ==
    << Unit("Unsure"), Unit("NoMissingSettings"), Unit("NoDuplicateSettings"),
       Unit("NoInvalidSettings"), Unit("NoInvalidCrc"),
       Variant("Yes", << << "crc32", "word" >>, << "length", "nat" >> >>) >>

StatusVariants ==
    << Unit("Idle"),
       Variant("Started",
               << << "start_addr", "nat" >>, << "length", "nat" >>, << "crc32", "word" >> >>),
       Variant("Loading",
               << << "start_addr", "nat" >>, << "next_addr", "nat" >>,
                  << "partial_crc32", "word" >>, << "expected_crc32", "word" >> >>),
       Unit("AwaitingComplete") >>

ResponseErrorVariants ==
    << Unit("BadStartAddress"), Unit("BadLength"), Unit("BootloadInProgress"),
       Variant("SkippedRange", << << "expected", "nat" >>, << "actual", "nat" >> >>),
       Variant("IncorrectLength", << << "expected", "nat" >>, << "actual", "nat" >> >>),
       Variant("BadSubCrc", << << "expected", "word" >>, << "actual", "word" >> >>),
       Unit("NoBootloadActive"), Unit("TooManyChunks"),
       Variant("IncompleteLoad", << << "expected_len", "nat" >>, << "actual_len", "nat" >> >>),
       Variant("BadFullCrc", << << "expected", "word" >>, << "actual", "word" >> >>),
       Variant("SettingsTooLong", << << "max", "nat" >>, << "actual", "nat" >> >>),
       Unit("BadRangeStart"), Unit("BadRangeEnd"),
       Variant("BadRangeLength", << << "actual", "nat" >>, << "max", "nat" >> >>),
       Variant("LineNak", << << "error", "Error" >> >>),
       Unit("Oops") >>

ResponseVariants ==
    << Variant("Pong", << << "n", "nat" >> >>),
       Variant("Parameters", << << "parameters", "Parameters" >> >>),
       Unit("BootloadStarted"),
       Variant("ChunkAccepted",
               << << "data_addr", "nat" >>, << "data_len", "nat" >>, << "crc32", "word" >> >>),
       Variant("ConfirmComplete",
               << << "will_boot", "bool" >>, << "boot_status", "Bootable" >> >>),
       Variant("Settings", << << "data", "bytes" >> >>),
       Variant("SettingsAccepted", << << "data_len", "nat" >> >>),
       Variant("Status", << << "status", "Status" >> >>),
       Variant("ReadRange",
               << << "start_addr", "word" >>, << "len", "word" >>, << "data", "bytes" >> >>),
       Unit("BadOverfillNak"), Unit("BadPostcardNak"), Unit("BadCrcNak"),
       Unit("BootloadAborted"),
       Variant("BootableStatus", << << "status", "Bootable" >> >>),
       Variant("ConfirmBootCmd",
               << << "will_boot", "bool" >>, << "boot_status", "Bootable" >> >>) >>

ParametersFields ==
    << << "settings_max", "nat" >>, << "data_chunk_size", "nat" >>,
       << "valid_flash_range", "range" >>, << "valid_app_range", "range" >>,
       << "read_max", "nat" >> >>

VariantsOf(kind) ==
    CASE kind = "Request" -> RequestVariants
      [] kind = "Response" -> ResponseVariants
      [] kind = "ResponseError" -> ResponseErrorVariants
      [] kind = "Error" -> ErrorVariants
      [] kind = "Bootable" -> BootableVariants
      [] kind = "Status" -> StatusVariants

\* the position of s in a sequence of strings, of t among the tags of variants
IndexIn(names, s) == CHOOSE i \in 1..Len(names) : names[i] = s

TagIndexIn(vs, t) == CHOOSE i \in 1..Len(vs) : vs[i].tag = t

\* ---------------------------------------------------------------- postcard, serialize
RECURSIVE SerValue(_, _)
RECURSIVE SerFields(_, _)
\* variant i of an enum: its index as a varint, then its fields
SerVariant(vs, i, v) == VarintU32(ToWord(i - 1)) \o SerFields(vs[i].fields, v)

SerFields(fs, v) ==
    IF fs = << >> THEN << >>
    ELSE SerValue(fs[1][2], v[fs[1][1]]) \o SerFields(Tail(fs), v)

\* postcard's bytes for a value of a kind
SerValue(kind, v) ==
    CASE kind = "nat" -> VarintU32(ToWord(v))
      [] kind = "word" -> VarintU32(v)
      [] kind = "bytes" -> EncodeSlice(v)
      [] kind = "bool" -> << IF v THEN 1 ELSE 0 >>
      [] kind = "range" -> VarintU32(ToWord(v[1])) \o VarintU32(ToWord(v[2]))
      [] kind = "cmd" -> << IndexIn(BootCommands, v) - 1 >>
      [] kind = "optcmd" ->
            IF v = "None" THEN << 0 >> ELSE << 1, IndexIn(BootCommands, v) - 1 >>
      [] kind = "Parameters" -> SerFields(ParametersFields, v)
      [] kind = "Result" ->
            IF v.ok THEN << 0 >> \o SerValue("Response", v)
            ELSE << 1 >> \o SerValue("ResponseError", v)
      [] OTHER -> SerVariant(VariantsOf(kind), TagIndexIn(VariantsOf(kind), v.tag), v)

\* ---------------------------------------------------------------- postcard, deserialize
\* a value taken off the front of bytes: [ok, val, rest]
Taken(v, rest) == [ok |-> TRUE, val |-> v, rest |-> rest]

NatOf(t) ==
    IF ~t.ok \/ ~WordIsSmall(t.val) THEN NoSlice ELSE Taken(WordToNat(t.val), t.rest)

TakeBool(bytes) ==
    IF bytes = << >> \/ bytes[1] > 1 THEN NoSlice ELSE Taken(bytes[1] = 1, Tail(bytes))

TakeCmd(bytes) ==
    IF bytes = << >> \/ bytes[1] > 1 THEN NoSlice
    ELSE Taken(BootCommands[bytes[1] + 1], Tail(bytes))

TakeOptCmd(bytes) ==
    IF bytes = << >> \/ bytes[1] > 1 THEN NoSlice
    ELSE IF bytes[1] = 0 THEN Taken("None", Tail(bytes))
    ELSE TakeCmd(Tail(bytes))

\* the second u32 of a pair after the first
RangeEnd(lo, hi) == IF ~hi.ok THEN NoSlice ELSE Taken(<< lo, hi.val >>, hi.rest)

RangeAfter(lo) == IF ~lo.ok THEN NoSlice ELSE RangeEnd(lo.val, NatOf(TakeVarint(lo.rest)))

RECURSIVE TakeValue(_, _)
RECURSIVE TakeFields(_, _, _)
\* the fields after the first, t being the first as taken
TakeFieldsNext(fs, rec, t) ==
    IF ~t.ok THEN NoSlice
    ELSE TakeFields(Tail(fs), t.rest, rec @@ (fs[1][1] :> t.val))

\* the fields fs off the front of bytes, added to rec
TakeFields(fs, bytes, rec) ==
    IF fs = << >> THEN Taken(rec, bytes)
    ELSE TakeFieldsNext(fs, rec, TakeValue(fs[1][2], bytes))

\* an enum after its variant index, rec holding what the value has besides
TakeVariantAt(vs, ix, rec) ==
    IF ~ix.ok \/ ~WordIsSmall(ix.val) THEN NoSlice
    ELSE IF WordToNat(ix.val) >= Len(vs) THEN NoSlice
    ELSE TakeFields(vs[WordToNat(ix.val) + 1].fields, ix.rest,
                    rec @@ ("tag" :> vs[WordToNat(ix.val) + 1].tag))

TakeVariant(vs, bytes, rec) == TakeVariantAt(vs, TakeVarint(bytes), rec)

\* Result<Response, ResponseError>: Ok is variant 0, Err variant 1
TakeResultAt(ix) ==
    IF ~ix.ok \/ ~WordIsSmall(ix.val) THEN NoSlice
    ELSE IF WordToNat(ix.val) = 0
    THEN TakeVariant(ResponseVariants, ix.rest, [ok |-> TRUE])
    ELSE IF WordToNat(ix.val) = 1
    THEN TakeVariant(ResponseErrorVariants, ix.rest, [ok |-> FALSE])
    ELSE NoSlice

\* a record with no field yet
NoFields == [x \in {} |-> 0]

\* postcard's value of a kind off the front of bytes
TakeValue(kind, bytes) ==
    CASE kind = "nat" -> NatOf(TakeVarint(bytes))
      [] kind = "word" -> TakeVarint(bytes)
      [] kind = "bytes" -> TakeSlice(bytes)
      [] kind = "bool" -> TakeBool(bytes)
      [] kind = "range" -> RangeAfter(NatOf(TakeVarint(bytes)))
      [] kind = "cmd" -> TakeCmd(bytes)
      [] kind = "optcmd" -> TakeOptCmd(bytes)
      [] kind = "Parameters" -> TakeFields(ParametersFields, bytes, NoFields)
      [] kind = "Result" -> TakeResultAt(TakeVarint(bytes))
      [] OTHER -> TakeVariant(VariantsOf(kind), bytes, NoFields)

\* ---------------------------------------------------------------- frames
\* Crc32SerFlavor: the serialized bytes, then their CRC, little-endian
WithCrc(ser) == ser \o Checksum(ser)

\* serialize_with_flavor through Crc32SerFlavor<Cobs<..>>: the stuffed bytes
\* and the 0x00 terminator
Frame(kind, v) == CobsEncode(WithCrc(SerValue(kind, v))) \o << 0 >>

\* Request::encode_to_vec
encode_to_vec(rq) == Frame("Request", rq)

\* encode_resp_to_slice into a buffer of n bytes: [ok, frame]
FrameInto(frame, n) ==
    IF Len(frame) > n THEN [ok |-> FALSE, frame |-> << >>] ELSE [ok |-> TRUE, frame |-> frame]

encode_resp_to_slice(resp, n) == FrameInto(Frame("Result", resp), n)

\* what process makes of a frame that does not decode
LineError(e) == [tag |-> "LineError", error |-> e]

DecodeValue(t) == IF t.ok THEN t.val ELSE LineError([tag |-> "PostcardDecode"])

\* the comparison reporting the computed CRC as the expected one
DecodeCrcSwapped(data, exp_crc, act_crc, kind) ==
    IF exp_crc # act_crc
    THEN LineError([tag |-> "Crc", expected |-> act_crc, actual |-> exp_crc])
    ELSE DecodeValue(TakeValue(kind, data))

DecodeCrc(data, exp_crc, act_crc, kind) ==
    IF exp_crc # act_crc
    THEN LineError([tag |-> "Crc", expected |-> exp_crc, actual |-> act_crc])
    ELSE DecodeValue(TakeValue(kind, data))

DecodeSplit(data, crc, kind) == DecodeCrc(data, crc, Checksum(data), kind)

DecodeUnstuffed(c, kind) ==
    IF ~c.ok THEN LineError([tag |-> "Cobs"])
    ELSE IF Len(c.data) < 5 THEN LineError([tag |-> "Underfill"])
    ELSE DecodeSplit(SubSeq(c.data, 1, Len(c.data) - 4),
                     SubSeq(c.data, Len(c.data) - 3, Len(c.data)), kind)

\* decode_in_place::<T>, T being Request or Result<Response, ResponseError>:
\* the value, or LineError(e) for Err(e)
decode_in_place(buf, kind) == DecodeUnstuffed(cobs_decode_in_place(buf), kind)

\* the length of the buffer process is given, which holds the request and
\* then the reply: half as much again as settings_max, as the 3072 bytes of
\* the mainline loop are to its settings_max of 2048
BufSize == (3 * PARAMETERS.settings_max) \div 2

\* Option<&[u8]> of a Result<&mut [u8], postcard::Error>
SomeFrame(e) == [some |-> e.ok, frame |-> e.frame]

\* Machine::respond: the reply encoded into the n bytes of buf, None when
\* it does not fit
respond(msg, n) == SomeFrame(encode_resp_to_slice(msg, n))

\* Machine::process on the bytes of a frame
process_buf(m, buf) == process(m, decode_in_place(buf, "Request"))

\* ---------------------------------------------------------------- the codec alone
\* a request as it is on the wire
Wire(rq) ==
    IF rq.tag = "WriteSettings" THEN [tag |-> "WriteSettings", data |-> rq.data] ELSE rq

\* n bytes none of which is zero, longer than one COBS block when n > CobsRun
LongData(n) == [i \in 1..n |-> 1 + (i % 255)]

\* bytes with zeros at both ends and in the middle
ZeroData == << 0, 0, 7, 0, 255, 0 >>

RequestSamples ==
    {Wire(rq) : rq \in Requests \ LineRequests}
    \cup {[tag |-> "Ping", n |-> 0], [tag |-> "Ping", n |-> 128],
          [tag |-> "DataChunk", data_addr |-> AppLo, sub_crc32 |-> WordMax,
           data |-> LongData(CobsRun + 2)],
          [tag |-> "DataChunk", data_addr |-> 0, sub_crc32 |-> ToWord(0), data |-> ZeroData],
          [tag |-> "WriteSettings", data |-> << >>]}

BootableSamples ==
    {[tag |-> t] : t \in {"Unsure", "NoMissingSettings", "NoDuplicateSettings",
                          "NoInvalidSettings", "NoInvalidCrc"}}
    \cup {[tag |-> "Yes", crc32 |-> WordMax, length |-> data_chunk_size]}

StatusSamples ==
    {[tag |-> "Idle"], [tag |-> "AwaitingComplete"],
     [tag |-> "Started", start_addr |-> AppLo, length |-> data_chunk_size, crc32 |-> BadCrc],
     [tag |-> "Loading", start_addr |-> AppLo, next_addr |-> AppLo + data_chunk_size,
      partial_crc32 |-> WordHalf, expected_crc32 |-> BadCrc]}

ErrorSamples == LineErrors \cup {[tag |-> "Overfill"], [tag |-> "LogicError"]}

ResponseSamples ==
    {[ok |-> TRUE, tag |-> t] :
        t \in {"BootloadStarted", "BadOverfillNak", "BadPostcardNak", "BadCrcNak",
               "BootloadAborted"}}
    \cup {[ok |-> TRUE, tag |-> "Pong", n |-> 7],
          [ok |-> TRUE, tag |-> "Parameters", parameters |-> PARAMETERS],
          [ok |-> TRUE, tag |-> "ChunkAccepted", data_addr |-> AppLo,
           data_len |-> data_chunk_size, crc32 |-> WordMax],
          [ok |-> TRUE, tag |-> "Settings", data |-> ZeroData],
          [ok |-> TRUE, tag |-> "Settings", data |-> LongData(CobsRun)],
          [ok |-> TRUE, tag |-> "SettingsAccepted", data_len |-> SettingsMax],
          [ok |-> TRUE, tag |-> "ReadRange", start_addr |-> WordHalf, len |-> ToWord(0),
           data |-> << >>],
          [ok |-> TRUE, tag |-> "ReadRange", start_addr |-> ToWord(0),
           len |-> ToWord(2 * CobsRun), data |-> LongData(2 * CobsRun)]}
    \cup {[ok |-> TRUE, tag |-> "Status", status |-> s] : s \in StatusSamples}
    \cup {[ok |-> TRUE, tag |-> "BootableStatus", status |-> b] : b \in BootableSamples}
    \cup {[ok |-> TRUE, tag |-> t, will_boot |-> w, boot_status |-> b] :
            t \in {"ConfirmComplete", "ConfirmBootCmd"}, w \in BOOLEAN, b \in BootableSamples}

ResponseErrorSamples ==
    {[ok |-> FALSE, tag |-> t] :
        t \in {"BadStartAddress", "BadLength", "BootloadInProgress", "NoBootloadActive",
               "TooManyChunks", "BadRangeStart", "BadRangeEnd", "Oops"}}
    \cup {[ok |-> FALSE, tag |-> t, expected |-> AppLo, actual |-> AppLo + data_chunk_size] :
            t \in {"SkippedRange", "IncorrectLength"}}
    \cup {[ok |-> FALSE, tag |-> t, expected |-> BadCrc, actual |-> WordMax] :
            t \in {"BadSubCrc", "BadFullCrc"}}
    \cup {[ok |-> FALSE, tag |-> "IncompleteLoad", expected_len |-> 2 * data_chunk_size,
           actual_len |-> data_chunk_size],
          [ok |-> FALSE, tag |-> "SettingsTooLong", max |-> SettingsMax,
           actual |-> SettingsMax + 1],
          [ok |-> FALSE, tag |-> "BadRangeLength", actual |-> 2 * data_chunk_size,
           max |-> data_chunk_size]}
    \cup {[ok |-> FALSE, tag |-> "LineNak", error |-> e] : e \in ErrorSamples}

\* the frame of serialized bytes with crc in place of their CRC
FrameWithTrailer(body, crc) == CobsEncode(body \o crc) \o << 0 >>

\* wrong trailers for a body: the right one with one bit flipped in its
\* first or its last byte, all ones, all zeros
WrongTrailers(body) ==
    {[Checksum(body) EXCEPT ![k] = (@ + 128) % 256] : k \in {1, 4}}
    \cup ({WordMax, ToWord(0)} \ {Checksum(body)})

TrailerBodies ==
    {SerValue("Request", rq) :
        rq \in {[tag |-> "Ping", n |-> 7], AbortRequest,
                [tag |-> "StartBootload", start_addr |-> AppLo,
                 length |-> data_chunk_size, crc32 |-> ImageCrc[1]]}}

\* frames that do not decode, each with the Error it is built to give; a Crc
\* frame carries the body and the trailer it was made from
CrcFrames ==
    UNION {{[frame |-> FrameWithTrailer(body, crc), why |-> "Crc", body |-> body,
             trailer |-> crc] : crc \in WrongTrailers(body)} : body \in TrailerBodies}

OtherBadFrames ==
    {[frame |-> f, why |-> "Cobs", body |-> << >>, trailer |-> << >>] :
        f \in {<< 5, 1, 0 >>, << 255, 1, 2, 0 >>, << 2 >>}}
    \cup {[frame |-> f, why |-> "Underfill", body |-> << >>, trailer |-> << >>] :
            f \in {<< 0 >>, << >>, CobsEncode(<< 1, 2, 3, 4 >>) \o << 0 >>,
                   CobsEncode(WithCrc(<< >>)) \o << 0 >>}}
    \cup {[frame |-> CobsEncode(WithCrc(b)) \o << 0 >>, why |-> "PostcardDecode",
           body |-> b, trailer |-> Checksum(b)] :
            b \in {<< 0 >>, << 99 >>, << 4, 2 >>, << 6, 3, 1 >>}}

BadFrames == CrcFrames \cup OtherBadFrames

\* a record whose value is a slice
SliceSetting(name, t, b) == [name_ascii |-> name, val |-> [tag |-> t, v |-> b]]

\* the four records of test::settings_smoke: my, eyes, are, special
SmokeSettings ==
    << SliceSetting(<< 109, 121 >>, "ByteSlice", << 77, 89 >>),
       SliceSetting(<< 101, 121, 101, 115 >>, "AsciiSlice", << 66, 82, 65, 78, 68 >>) >>
    \o Others
    \o << F32Setting(<< 115, 112, 101, 99, 105, 97, 108 >>, << 219, 15, 73, 64 >>) >>

\* record lists given to settings_to_vec: the test's, its records alone, in
\* reverse and twice over, records with empty names and values and with
\* zeros and u32::MAX in them, and those the machine model writes
SettingsSamples ==
    {SmokeSettings, SmokeSettings \o SmokeSettings,
     [i \in 1..4 |-> SmokeSettings[5 - i]],
     << SliceSetting(<< >>, "ByteSlice", << >>) >>,
     << SliceSetting(<< 0 >>, "AsciiSlice", ZeroData), U32Setting(<< >>, WordMax),
        U32Setting(are_name, ToWord(0)), F32Setting(<< 0, 0 >>, << 0, 0, 0, 0 >>) >>,
     << SliceSetting(are_name, "ByteSlice", LongData(CobsRun)) >>}
    \cup {<< SmokeSettings[i] >> : i \in 1..4}
    \cup InfoItems \cup SettingsChoices

CodecInputs ==
    {[kind |-> "Request", v |-> rq] : rq \in RequestSamples}
    \cup {[kind |-> "Result", v |-> r] : r \in ResponseSamples \cup ResponseErrorSamples}
    \cup {[kind |-> "frame", v |-> f] : f \in BadFrames}
    \cup {[kind |-> "settings", v |-> [items |-> items]] : items \in SettingsSamples}

CodecInit ==
    /\ mode = Idle
    /\ flash = [i \in 1..PARAMETERS.valid_flash_range[2] |-> FlashFill]
    /\ settings = [i \in 1..(4 + PARAMETERS.settings_max) |-> SettingsFill]
    /\ booted = FALSE
    /\ fault = FALSE
    /\ accepted = << >>
    /\ declared = << >>
    /\ pc = "byte"
    /\ idx = 0
    /\ tx = 0
    /\ byte = 0
    /\ input \in CodecInputs
    /\ output = << >>

\* a request encoded by the host
EncodeToVec ==
    /\ input.kind = "Request"
    /\ output = << >>
    /\ output' = << encode_to_vec(input.v) >>
    /\ UNCHANGED << mode, flash, settings, booted, fault, accepted, declared, loop, input >>

\* a reply encoded into a buffer that holds it
EncodeRespToSlice ==
    /\ input.kind = "Result"
    /\ output = << >>
    /\ output' = << encode_resp_to_slice(input.v, Len(Frame("Result", input.v))).frame >>
    /\ UNCHANGED << mode, flash, settings, booted, fault, accepted, declared, loop, input >>

\* a frame off the line
Received ==
    /\ input.kind = "frame"
    /\ output = << >>
    /\ output' = << input.v.frame >>
    /\ UNCHANGED << mode, flash, settings, booted, fault, accepted, declared, loop, input >>

\* the frame decoded as the type its receiver expects
DecodeInPlace ==
    /\ input.kind # "settings"
    /\ Len(output) = 1
    /\ output' = Append(output, decode_in_place(output[1],
                                    IF input.kind = "Result" THEN "Result" ELSE "Request"))
    /\ UNCHANGED << mode, flash, settings, booted, fault, accepted, declared, loop, input >>

\* a settings block built by the host
SettingsToVec ==
    /\ input.kind = "settings"
    /\ output = << >>
    /\ output' = << settings_to_vec(input.v.items) >>
    /\ UNCHANGED << mode, flash, settings, booted, fault, accepted, declared, loop, input >>

\* what settings_from_raw gives collected: [ok, items]
Collected(r) == [ok |-> r.ok, items |-> IF r.ok THEN SettingsIter(r.remain) ELSE << >>]

\* the block read back and its records collected
SettingsFromRaw ==
    /\ input.kind = "settings"
    /\ Len(output) = 1
    /\ output' = Append(output, Collected(settings_from_raw(output[1])))
    /\ UNCHANGED << mode, flash, settings, booted, fault, accepted, declared, loop, input >>

CodecNext ==
    \/ EncodeToVec
    \/ EncodeRespToSlice
    \/ Received
    \/ DecodeInPlace
    \/ SettingsToVec
    \/ SettingsFromRaw

CodecSpec == CodecInit /\ [][CodecNext]_vars

\* ---------------------------------------------------------------- u32 arithmetic alone
\* The additions and subtractions of the handlers and of is_bootable at their
\* full width, for Parameters anywhere in the address space.  A u32 is a
\* word; a sum or difference is [some, v], some being FALSE when it left
\* 0..2^32 - 1 (v is then what wrapping gives).
RECURSIVE WordSubFrom(_, _, _, _)
\* the bytes of a - b from byte i on with the borrow in, then the borrow out
WordSubFrom(a, b, i, borrow) ==
    IF i > 4 THEN << borrow >>
    ELSE << (256 + a[i] - b[i] - borrow) % 256 >>
         \o WordSubFrom(a, b, i + 1, IF a[i] - b[i] - borrow < 0 THEN 1 ELSE 0)

\* a - b of two u32
checked_sub(a, b) == CheckedOf(WordSubFrom(a, b, 1, 0))

\* a & b of two u32
WordAnd(a, b) == [i \in 1..4 |-> BitAnd(a[i], b[i])]

\* a session the arithmetic runs on: the fields of BootLoadMeta that are
\* added and subtracted, the chunks taken so far, and whether every sum and
\* difference so far stayed in range
ArithMeta(addr_start, length, addr_current, chunks, ok) ==
    [started |-> TRUE, addr_start |-> addr_start, length |-> length,
     addr_current |-> addr_current, chunks |-> chunks, completed |-> FALSE, ok |-> ok]

\* no session: the request was refused, ok as above
ArithIdle(ok) ==
    [started |-> FALSE, addr_start |-> ToWord(0), length |-> ToWord(0),
     addr_current |-> ToWord(0), chunks |-> 0, completed |-> FALSE, ok |-> ok]

\* start_inner with too_long always false
StartCheckedNeverLong(params, sb, max_app_len, mask) ==
    IF WordAnd(sb.length, mask.v) # ToWord(0)
    THEN ArithIdle(max_app_len.some /\ mask.some)
    ELSE ArithMeta(sb.start_addr, sb.length, sb.start_addr, 0, max_app_len.some /\ mask.some)

\* start_inner after the start address: max_app_len = hi - lo, mask =
\* data_chunk_size - 1, too_long, not_full
StartChecked(params, sb, max_app_len, mask) ==
    IF WordLess(max_app_len.v, sb.length) \/ WordAnd(sb.length, mask.v) # ToWord(0)
    THEN ArithIdle(max_app_len.some /\ mask.some)
    ELSE ArithMeta(sb.start_addr, sb.length, sb.start_addr, 0, max_app_len.some /\ mask.some)

\* Machine::start_inner, its arithmetic
start_inner_words(params, sb) ==
    IF sb.start_addr # params.lo THEN ArithIdle(TRUE)
    ELSE StartChecked(params, sb, checked_sub(params.hi, params.lo),
                      checked_sub(params.chunk, ToWord(1)))

\* addr_current += data_chunk_size
ChunkAdvanced(meta, end, next) ==
    [meta EXCEPT !.addr_current = next.v, !.chunks = @ + 1,
                 !.ok = @ /\ end.some /\ next.some]

\* data_chunk_inner from the check on the end of the session on
ChunkBounded(params, meta, end) ==
    IF ~WordLess(meta.addr_current, end.v)
    THEN [meta EXCEPT !.ok = @ /\ end.some]
    ELSE ChunkAdvanced(meta, end, checked_add(meta.addr_current, params.chunk))

\* Machine::data_chunk_inner for a chunk that passes the checks on its
\* address, length and CRC: addr_start + length, addr_current + data_chunk_size
data_chunk_inner_words(params, meta) ==
    ChunkBounded(params, meta, checked_add(meta.addr_start, meta.length))

\* complete_inner: addr_start + length, and, when the load is incomplete,
\* addr_current - addr_start
CompleteChecked(meta, end, actual_len) ==
    [meta EXCEPT !.completed = TRUE,
                 !.ok = @ /\ end.some /\ (meta.addr_current = end.v \/ actual_len.some)]

\* Machine::complete_inner, its arithmetic
complete_inner_words(meta) ==
    CompleteChecked(meta, checked_add(meta.addr_start, meta.length),
                    checked_sub(meta.addr_current, meta.addr_start))

\* get_app_info's check of app_len against ttl_len and chunk_len
AppLenFailCheckWords(app_len, ttl_len, chunk_len) ==
    \/ WordLess(ttl_len.v, app_len)
    \/ WordLess(app_len, chunk_len)
    \/ ~WordIsPowerOfTwo(app_len)

\* is_bootable once get_app_info has passed: end = start + app_len
BootableEnd(ttl_len, end) ==
    [started |-> FALSE, addr_start |-> ToWord(0), length |-> ToWord(0),
     addr_current |-> end.v, chunks |-> 0, completed |-> TRUE,
     ok |-> ttl_len.some /\ end.some]

BootableChecked(params, app_len, ttl_len) ==
    IF AppLenFailCheckWords(app_len, ttl_len, params.chunk)
    THEN [ArithIdle(ttl_len.some) EXCEPT !.completed = TRUE]
    ELSE BootableEnd(ttl_len, checked_add(params.lo, app_len))

\* Flash::is_bootable with get_app_info, their arithmetic: ttl_len = end -
\* start, then start + app_len
is_bootable_words(params, app_len) ==
    BootableChecked(params, app_len, checked_sub(params.hi, params.lo))

\* valid_app_range and data_chunk_size that meet the declared constraints:
\* the model's own, ranges that end at 2^32 - 1, the whole address space
WordTop(n) == checked_sub(WordMax, ToWord(n)).v

ArithWindows ==
    {<< ToWord(AppLo), ToWord(AppHi) >>,
     << WordTop(3 * data_chunk_size), WordMax >>,
     << WordTop(3 * data_chunk_size + 4), WordMax >>,
     << WordTop(1), WordMax >>,
     << ToWord(0), WordMax >>,
     << WordHalf, WordTop(data_chunk_size) >>}

ArithParams ==
    {[lo |-> w[1], hi |-> w[2], chunk |-> ToWord(c)] :
        w \in ArithWindows, c \in {data_chunk_size, 2 * data_chunk_size}}

\* lengths of every size: chunk counts, one byte off, powers of two, the
\* largest multiples of a chunk and the largest u32
ArithLengths ==
    {ToWord(n * data_chunk_size) : n \in 0..4}
    \cup {ToWord(data_chunk_size + 1), WordHalf, WordMax,
          WordTop(data_chunk_size - 1), WordTop(2 * data_chunk_size - 1),
          checked_sub(WordHalf, ToWord(data_chunk_size)).v}

ArithInputs ==
    UNION {{[fn |-> "start", params |-> p, start_addr |-> a, v |-> l] :
               a \in {p.lo, ToWord(0), WordMax}, l \in ArithLengths} :
           p \in ArithParams}
    \cup {[fn |-> "is_bootable", params |-> p, start_addr |-> p.lo, v |-> l] :
            p \in ArithParams, l \in ArithLengths}

\* chunks taken in one session of this specification
ArithChunks == 4

ArithInit ==
    /\ mode = Idle
    /\ flash = [i \in 1..PARAMETERS.valid_flash_range[2] |-> FlashFill]
    /\ settings = [i \in 1..(4 + PARAMETERS.settings_max) |-> SettingsFill]
    /\ booted = FALSE
    /\ fault = FALSE
    /\ accepted = << >>
    /\ declared = << >>
    /\ pc = "byte"
    /\ idx = 0
    /\ tx = 0
    /\ byte = 0
    /\ input \in ArithInputs
    /\ output = << >>

\* StartBootload{start_addr, length}
ArithStart ==
    /\ input.fn = "start"
    /\ output = << >>
    /\ output' = << start_inner_words(input.params,
                                      [start_addr |-> input.start_addr, length |-> input.v]) >>
    /\ UNCHANGED << machine, loop, input >>

\* a DataChunk at addr_current
ArithChunk ==
    /\ Len(output) = 1
    /\ output[1].started
    /\ ~output[1].completed
    /\ output[1].chunks < ArithChunks
    /\ output' = << data_chunk_inner_words(input.params, output[1]) >>
    /\ UNCHANGED << machine, loop, input >>

\* CompleteBootload
ArithComplete ==
    /\ Len(output) = 1
    /\ output[1].started
    /\ ~output[1].completed
    /\ output' = << complete_inner_words(output[1]) >>
    /\ UNCHANGED << machine, loop, input >>

\* is_bootable on settings that declare app_len
ArithIsBootable ==
    /\ input.fn = "is_bootable"
    /\ output = << >>
    /\ output' = << is_bootable_words(input.params, input.v) >>
    /\ UNCHANGED << machine, loop, input >>

ArithNext == ArithStart \/ ArithChunk \/ ArithComplete \/ ArithIsBootable

ArithSpec == ArithInit /\ [][ArithNext]_vars

\* ---------------------------------------------------------------- properties
InBootLoad == mode.tag = "BootLoad"

\* every chunk of the session has been accepted
Complete == InBootLoad /\ mode.addr_current = mode.addr_start + mode.length

RECURSIVE Concat(_)
Concat(chunks) == IF chunks = << >> THEN << >> ELSE Head(chunks) \o Concat(Tail(chunks))

\* the flash after is the flash before but for [start, start + Len(bytes)),
\* which holds bytes
Overwritten(before, after, start, bytes) ==
    /\ Len(after) = Len(before)
    /\ \A a \in 0..(Len(before) - 1) :
          after[a + 1] = IF start <= a /\ a < start + Len(bytes)
                         THEN bytes[a - start + 1] ELSE before[a + 1]

\* the handler changed neither the mode nor the hardware, and called nothing
Untouched(m, out) ==
    /\ out.mode = m.mode
    /\ out.flash = m.flash
    /\ out.settings = m.settings
    /\ out.calls = << >>
    /\ ~out.panic

\* ---- C1
StartAcceptable(sb) ==
    /\ sb.start_addr = AppLo
    /\ sb.length <= AppHi - AppLo
    /\ sb.length % data_chunk_size = 0

FreshSession(sb) ==
    [tag |-> "BootLoad", digest_running |-> CrcInit, addr_start |-> sb.start_addr,
     addr_current |-> sb.start_addr, length |-> sb.length, exp_crc |-> sb.crc32]

StartAnswered(m, sb, out) ==
    IF StartAcceptable(sb)
    THEN /\ out.resp = Ok("BootloadStarted")
         /\ out.mode = FreshSession(sb)
         /\ Overwritten(m.flash, out.flash, sb.start_addr, [i \in 1..sb.length |-> Erased])
         /\ out.calls = << [fn |-> "erase_range", start |-> sb.start_addr,
                            len |-> sb.length] >>
         /\ out.settings = m.settings
         /\ ~out.panic
    ELSE /\ out.resp = Err(IF sb.start_addr # AppLo THEN "BadStartAddress" ELSE "BadLength")
         /\ out.mode = Idle
         /\ Untouched(m, out)

\* C1: a StartBootload received in Idle is accepted iff start_addr is the low
\* end of valid_app_range, length fits the range and is a multiple of
\* data_chunk_size; accepted, it erases exactly [start_addr, start_addr + length),
\* replies BootloadStarted and enters BootLoad with addr_start = addr_current =
\* start_addr, the length and CRC of the request and a fresh digest; otherwise
\* it replies BadStartAddress (checked first) or BadLength, erases nothing and
\* stays Idle.
C1_StartBootload ==
    mode = Idle => \A sb \in StartRequests : StartAnswered(M, sb, process(M, sb))

\* a session has just been started over flash that held something else
C1_Witness ==
    /\ InBootLoad
    /\ mode.length = AppChunks * data_chunk_size
    /\ mode.addr_current = mode.addr_start
    /\ IsErased(flash, mode.addr_start, mode.length)
    /\ \E sb \in StartRequests : StartAcceptable(sb) /\ mode = FreshSession(sb)

\* ---- C2
Skipped(meta, dc) == dc.data_addr # meta.addr_current
WrongLength(dc) == Len(dc.data) # data_chunk_size
Full(meta) == meta.addr_current >= meta.addr_start + meta.length
CrcMismatch(dc, crc) == crc # dc.sub_crc32

ChunkRefusal(meta, dc, crc, r) ==
    /\ Skipped(meta, dc) =>
          r = [ok |-> FALSE, tag |-> "SkippedRange", expected |-> meta.addr_current,
               actual |-> dc.data_addr]
    /\ ~Skipped(meta, dc) /\ WrongLength(dc) =>
          r = [ok |-> FALSE, tag |-> "IncorrectLength", expected |-> data_chunk_size,
               actual |-> Len(dc.data)]
    /\ ~Skipped(meta, dc) /\ ~WrongLength(dc) /\ Full(meta) => r = Err("TooManyChunks")
    /\ ~Skipped(meta, dc) /\ ~WrongLength(dc) /\ ~Full(meta) /\ CrcMismatch(dc, crc) =>
          r = [ok |-> FALSE, tag |-> "BadSubCrc", expected |-> dc.sub_crc32, actual |-> crc]

\* C2: a DataChunk received in BootLoad is answered with the error of the
\* first check that fails, in the order SkippedRange, IncorrectLength,
\* TooManyChunks, BadSubCrc, each with the fields the check compared.
C2_ChunkCheckOrder ==
    InBootLoad =>
        \A dc \in DataRequests :
            ChunkRefusal(mode, dc, Checksum(dc.data), process(M, dc).resp)

\* a complete session, where a chunk can fail the first three checks at once
\* and another only the last two
C2_Witness ==
    /\ Complete
    /\ mode.length > 0
    /\ \E dc \in DataRequests :
          /\ Skipped(mode, dc) /\ WrongLength(dc)
          /\ process(M, dc).resp.tag = "SkippedRange"
    /\ \E dc \in DataRequests :
          /\ ~Skipped(mode, dc) /\ ~WrongLength(dc) /\ dc.sub_crc32 = BadCrc
          /\ process(M, dc).resp.tag = "TooManyChunks"

\* ---- C3
ChunkPasses(meta, dc, crc) ==
    ~Skipped(meta, dc) /\ ~WrongLength(dc) /\ ~Full(meta) /\ ~CrcMismatch(dc, crc)

ChunkStored(m, dc, crc, out) ==
    /\ out.calls = << [fn |-> "flash_range", start |-> dc.data_addr, data |-> dc.data] >>
    /\ ~out.panic
    /\ Overwritten(m.flash, out.flash, dc.data_addr, dc.data)
    /\ out.settings = m.settings
    /\ out.mode = [tag |-> "BootLoad",
                   digest_running |-> DigestUpdate(m.mode.digest_running, dc.data),
                   addr_start |-> m.mode.addr_start,
                   addr_current |-> m.mode.addr_current + data_chunk_size,
                   length |-> m.mode.length,
                   exp_crc |-> m.mode.exp_crc]
    /\ out.resp = [ok |-> TRUE, tag |-> "ChunkAccepted", data_addr |-> dc.data_addr,
                   data_len |-> data_chunk_size, crc32 |-> crc]

\* C3: a DataChunk that passes the four checks is programmed at data_addr by
\* one flash_range call, its data are appended to the running digest,
\* addr_current grows by data_chunk_size, the other session fields stay, and
\* the reply is ChunkAccepted with data_addr, data_chunk_size and the CRC-32
\* of the data.
C3_ChunkAccepted ==
    InBootLoad =>
        \A dc \in DataRequests :
            ChunkPasses(mode, dc, Checksum(dc.data)) =>
                ChunkStored(M, dc, Checksum(dc.data), process(M, dc))

\* a second chunk has been accepted after a first
C3_Witness ==
    /\ InBootLoad
    /\ Len(accepted) = 2
    /\ mode.addr_current = mode.addr_start + 2 * data_chunk_size
    /\ read_range(flash, mode.addr_start, 2 * data_chunk_size) = Concat(accepted)

\* ---- C4
WellFormedAt(meta, dc) ==
    /\ dc.data_addr = meta.addr_current
    /\ Len(dc.data) = data_chunk_size
    /\ dc.sub_crc32 = Checksum(dc.data)

Retry(out) == [mode |-> out.mode, flash |-> out.flash, settings |-> out.settings]

RetryAccepted(out) ==
    \A dc \in DataRequests :
        WellFormedAt(out.mode, dc) => process(Retry(out), dc).resp.tag = "ChunkAccepted"

ChunkRefused(m, out) ==
    ~out.resp.ok =>
        /\ out.resp.tag \in {"SkippedRange", "IncorrectLength", "TooManyChunks", "BadSubCrc"}
        /\ Untouched(m, out)
        /\ ~Full(m.mode) => RetryAccepted(out)

ChunkRefusedAlwaysRetried(m, out) ==
    ~out.resp.ok => Untouched(m, out) /\ RetryAccepted(out)

C5_SessionInvariant ==
    InBootLoad =>
        /\ mode.addr_start = AppLo
        /\ mode.length % data_chunk_size = 0
        /\ mode.length <= AppHi - AppLo
        /\ mode.addr_start <= mode.addr_current
        /\ mode.addr_current <= mode.addr_start + mode.length

\* the longest session, with every chunk in
C5_Witness ==
    /\ Complete
    /\ mode.length = AppHi - AppLo
    /\ Len(accepted) = AppChunks

\* ---- C6
GetStatusRequest == [tag |-> "GetStatus"]

IncompleteAnswered(m, out) ==
    /\ out.resp = [ok |-> FALSE, tag |-> "IncompleteLoad", expected_len |-> m.mode.length,
                   actual_len |-> m.mode.addr_current - m.mode.addr_start]
    /\ Untouched(m, out)
    /\ process(Retry(out), GetStatusRequest).resp = process(m, GetStatusRequest).resp

\* C6: a CompleteBootload received in BootLoad before every chunk is in replies
\* IncompleteLoad with the session's length and the bytes loaded so far,
\* leaves the session and the flash as they were, and a following GetStatus
\* reports what it reported before.
C6_IncompleteLoad ==
    InBootLoad /\ ~Complete =>
        \A rq \in CompleteRequests : IncompleteAnswered(M, process(M, rq))

\* a session between its first and its last chunk, which GetStatus reports
\* as Loading
C6_Witness ==
    /\ InBootLoad
    /\ Len(accepted) = 1
    /\ mode.length = 2 * data_chunk_size
    /\ process(M, GetStatusRequest).resp.status.tag = "Loading"

\* ---- C7
BadFullCrcAnswered(m, out) ==
    /\ out.resp = [ok |-> FALSE, tag |-> "BadFullCrc", expected |-> m.mode.exp_crc,
                   actual |-> DigestFinalize(m.mode.digest_running)]
    /\ out.mode = Idle
    /\ out.flash = m.flash
    /\ out.settings = m.settings
    /\ out.calls = << >>
    /\ check_after_send(Retry(out)) = [booted |-> FALSE, calls |-> << >>]

\* C7: a CompleteBootload received in BootLoad with every chunk in but a
\* finalized digest that differs from exp_crc replies BadFullCrc with both
\* values and sets the mode to Idle whatever the boot option is; the
\* following check_after_send does not call boot.
C7_BadFullCrc ==
    Complete /\ DigestFinalize(mode.digest_running) # mode.exp_crc =>
        \A rq \in CompleteRequests : BadFullCrcAnswered(M, process(M, rq))

\* every chunk of the longest session is in, and the image is not the one
\* the session was started for
C7_Witness ==
    /\ Complete
    /\ Len(accepted) = AppChunks
    /\ DigestFinalize(mode.digest_running) # mode.exp_crc
    /\ \E n \in 0..AppChunks : mode.exp_crc = ImageCrc[n]

\* ---- C8
ExpectedWillBoot(boot, status) ==
    \/ boot = "ForceBoot"
    \/ boot = "BootIfBootable" /\ status.tag = "Yes"

CompleteConfirmed(m, boot, b, out) ==
    /\ out.resp = [ok |-> TRUE, tag |-> "ConfirmComplete",
                   will_boot |-> ExpectedWillBoot(boot, b.status),
                   boot_status |-> b.status]
    /\ out.mode = IF ExpectedWillBoot(boot, b.status) THEN BootPending ELSE Idle
    /\ out.flash = m.flash
    /\ out.settings = m.settings

\* C8: a CompleteBootload received in BootLoad with every chunk in and a
\* matching CRC replies ConfirmComplete with boot_status what is_bootable
\* gives and will_boot true for ForceBoot, (boot_status is Yes) for
\* BootIfBootable and false for no boot option; the new mode is BootPending
\* iff will_boot, and Idle otherwise.
C8_ConfirmComplete ==
    Complete /\ DigestFinalize(mode.digest_running) = mode.exp_crc =>
        \A rq \in CompleteRequests :
            CompleteConfirmed(M, rq.boot, is_bootable(flash, settings), process(M, rq))

\* a good image is in and the settings do not make it bootable, so that
\* BootIfBootable and ForceBoot part ways
C8_Witness ==
    /\ Complete
    /\ Len(accepted) = 1
    /\ DigestFinalize(mode.digest_running) = mode.exp_crc
    /\ is_bootable(flash, settings).status.tag = "NoInvalidCrc"

\* ---- C9
Declares(items, len, crc) ==
    items = << U32Setting(app_len_name, ToWord(len)), U32Setting(app_crc_name, crc) >>

\* every chunk is in, the image has the CRC of the session, and the settings
\* last written declare the session's length and CRC
LoadedAndDeclared ==
    /\ Complete
    /\ Checksum(Concat(accepted)) = mode.exp_crc
    /\ Declares(declared, mode.length, mode.exp_crc)

\* the lengths get_app_info takes for an application
BootableLength(len) == len >= data_chunk_size /\ PopCount(len) = 1

CompleteNoBoot == [tag |-> "CompleteBootload", boot |-> "None"]

ConfirmedBootable(m, out) ==
    /\ out.resp = [ok |-> TRUE, tag |-> "ConfirmComplete", will_boot |-> FALSE,
                   boot_status |-> [tag |-> "Yes", crc32 |-> m.mode.exp_crc,
                                    length |-> m.mode.length]]
    /\ out.mode = Idle

\* C9: for every length L that StartBootload accepts and that is a power of
\* two not below data_chunk_size: once the L / data_chunk_size chunks are in
\* with image CRC C and a WriteSettings has stored a block declaring app_len
\* = L and app_crc = C, CompleteBootload without a boot option replies
\* ConfirmComplete{will_boot = false, boot_status = Yes{C, L}} and the mode
\* is Idle.
C9_LoadThenBootable ==
    LoadedAndDeclared /\ BootableLength(mode.length) =>
        ConfirmedBootable(M, process(M, CompleteNoBoot))

\* the claim as stated: for every length StartBootload accepts
C9_AsStated == LoadedAndDeclared => ConfirmedBootable(M, process(M, CompleteNoBoot))

\* the image of two chunks is in and declared
C9_Witness ==
    /\ LoadedAndDeclared
    /\ mode.length = 2 * data_chunk_size
    /\ BootableLength(mode.length)

\* ---- C10
\* C10: in BootLoad the running digest is the CRC state of the payloads of
\* the chunks accepted in the session, concatenated in ascending address
\* order, which are what the flash holds from addr_start to addr_current;
\* with every chunk in, its finalized value is the CRC-32 of the bytes of
\* [addr_start, addr_start + length).
C10_RunningDigest ==
    InBootLoad =>
        /\ mode.digest_running = DigestUpdate(CrcInit, Concat(accepted))
        /\ Len(Concat(accepted)) = mode.addr_current - mode.addr_start
        /\ read_range(flash, mode.addr_start, Len(Concat(accepted))) = Concat(accepted)
        /\ Complete =>
              DigestFinalize(mode.digest_running)
                  = Checksum(read_range(flash, mode.addr_start, mode.length))

\* two chunks with different payloads are in and the session is complete
C10_Witness ==
    /\ Complete
    /\ Len(accepted) = 2
    /\ accepted[1] # accepted[2]

\* ---- C11
Aborted(m, out) ==
    /\ out.resp = Ok("BootloadAborted")
    /\ out.mode = Idle
    /\ out.flash = m.flash
    /\ out.settings = m.settings
    /\ out.calls = << >>
    /\ ~out.panic

\* C11: an AbortBootload received in BootLoad replies BootloadAborted, sets
\* the mode to Idle and calls nothing of the hardware: the flash, erased or
\* partly programmed by the session, and the settings stay as they are.
C11_Abort == InBootLoad => Aborted(M, process(M, AbortRequest))

\* a session that erased three chunks and programmed one of them
C11_Witness ==
    /\ InBootLoad
    /\ Len(accepted) = 1
    /\ mode.length = 3 * data_chunk_size
    /\ IsErased(flash, mode.addr_current, 2 * data_chunk_size)
    /\ process(M, AbortRequest).mode = Idle

\* ---- C12
ValidStarts == {sb \in StartRequests : StartAcceptable(sb)}

StartsAfter(out) ==
    \A sb \in ValidStarts : process(Retry(out), sb).resp = Ok("BootloadStarted")

\* C12: from every reachable state whose mode is Idle or BootLoad, an
\* AbortBootload followed at once by a valid StartBootload gets the reply
\* BootloadStarted to the StartBootload, whatever the reply to the
\* AbortBootload was.
C12_AbortThenStart == mode # BootPending => StartsAfter(process(M, AbortRequest))

\* the claim as stated: from every reachable state in which the machine can
\* be called, BootPending included
C12_AsStated == Live => StartsAfter(process(M, AbortRequest))

\* the abort is refused (Idle) in one state and accepted (a complete session)
\* in another; this is the second
C12_Witness ==
    /\ Complete
    /\ Len(accepted) = AppChunks
    /\ process(M, AbortRequest).resp = Ok("BootloadAborted")
    /\ \E sb \in ValidStarts :
          process(Retry(process(M, AbortRequest)), sb).mode = FreshSession(sb)

\* ---- C13
SessionRequests ==
    StartRequests \cup DataRequests \cup CompleteRequests \cup {AbortRequest}

\* the request has no handler of its own in this mode
Misplaced(md, rq) ==
    IF rq.tag = "StartBootload" THEN md.tag # "Idle" ELSE md.tag # "BootLoad"

DispatchError(md, rq) ==
    IF rq.tag = "StartBootload"
    THEN IF md.tag = "BootLoad" THEN Err("BootloadInProgress") ELSE Err("Oops")
    ELSE Err("NoBootloadActive")

Dismissed(m, rq, out) == out.resp = DispatchError(m.mode, rq) /\ Untouched(m, out)

\* C13: DataChunk, CompleteBootload and AbortBootload reply NoBootloadActive
\* in Idle and in BootPending; StartBootload replies BootloadInProgress in
\* BootLoad, whatever its arguments are, and Oops in BootPending; none of
\* them changes the mode, the session, the flash or the settings.
C13_DispatchErrors ==
    \A rq \in SessionRequests : Misplaced(mode, rq) => Dismissed(M, rq, process(M, rq))

\* BootPending, reached from a session that had a chunk in, with the
\* machine still callable
C13_Witness ==
    /\ mode = BootPending
    /\ Live
    /\ Len(accepted) = 1
    /\ \E sb \in ValidStarts : process(M, sb).resp = Err("Oops")

\* ---- C14
BootConfirmed(m, cmd, b, out) ==
    /\ out.resp = [ok |-> TRUE, tag |-> "ConfirmBootCmd",
                   will_boot |-> ExpectedWillBoot(cmd, b.status),
                   boot_status |-> b.status]
    /\ out.mode = BootPending
    /\ out.flash = m.flash
    /\ out.settings = m.settings

\* C14: Boot(cmd) received in any mode sets the mode to BootPending and
\* replies ConfirmBootCmd with boot_status what is_bootable gives and
\* will_boot true for ForceBoot and (boot_status is Yes) for BootIfBootable.
C14_Boot ==
    \A rq \in BootRequests :
        BootConfirmed(M, rq.cmd, is_bootable(flash, settings), process(M, rq))

\* a session with a chunk in and nothing bootable in the flash
C14_Witness ==
    /\ InBootLoad
    /\ Len(accepted) = 1
    /\ is_bootable(flash, settings).status.tag = "NoInvalidCrc"
    /\ \E rq \in BootRequests : ~process(M, rq).resp.will_boot

\* ---- C15
StaysPending(m) == \A rq \in Requests : process(m, rq).mode = BootPending

BootsIffPending(m, after) ==
    after = IF m.mode = BootPending
            THEN [booted |-> TRUE, calls |-> << [fn |-> "boot"] >>]
            ELSE [booted |-> FALSE, calls |-> << >>]

\* C15: once the mode is BootPending no request changes it, and
\* check_after_send calls boot iff the mode is BootPending; in Idle and in
\* BootLoad it calls nothing.  The machine that has booted was in BootPending.
C15_BootPendingTerminal ==
    /\ mode = BootPending => StaysPending(M)
    /\ BootsIffPending(M, check_after_send(M))
    /\ booted => mode = BootPending

\* the machine has booted
C15_Witness == mode = BootPending /\ booted /\ ~Live

\* ---- C16
NoBootCall(cs) == \A i \in 1..Len(cs) : cs[i].fn # "boot"

\* C16: process never calls boot; in the mainline loop the reply is written
\* to its last byte before check_after_send is called, process is not called
\* on a machine in BootPending, so that the machine boots only after the
\* reply to the request that entered BootPending has been written whole.
C16_BootAfterReply ==
    /\ pc = "process" => \A rq \in Requests : NoBootCall(process(M, rq).calls)
    /\ pc = "check" => tx = 0
    /\ pc \in {"byte", "process"} => mode # BootPending /\ tx = 0
    /\ pc = "write" => tx > 0
    /\ booted => pc = "check" /\ tx = 0 /\ mode = BootPending

\* the loop has booted, out of a session
C16_Witness ==
    /\ booted
    /\ pc = "check"
    /\ tx = 0
    /\ Len(accepted) = 1

\* ---- C17
ModeFreeRequests ==
    {[tag |-> "Ping", n |-> n] : n \in {0, 7}}
    \cup {[tag |-> "GetParameters"], [tag |-> "GetSettings"]}

ModeFreeReply(stg, q) ==
    CASE q.tag = "Ping" -> [ok |-> TRUE, tag |-> "Pong", n |-> q.n]
      [] q.tag = "GetParameters" ->
            [ok |-> TRUE, tag |-> "Parameters", parameters |-> PARAMETERS]
      [] q.tag = "GetSettings" -> [ok |-> TRUE, tag |-> "Settings", data |-> stg]

Answered(m, q, out) ==
    /\ out.resp = ModeFreeReply(m.settings, q)
    /\ out.mode = m.mode
    /\ out.flash = m.flash
    /\ out.settings = m.settings
    /\ ~out.panic

AnsweredIn(m, q) == Answered(m, q, process(m, q))

\* C17: with the flash and the settings of the machine, in its own mode, in
\* Idle and in BootPending alike, Ping(n) is answered Pong(n), GetParameters
\* Parameters(PARAMETERS) and GetSettings Settings with the raw settings
\* page, so the reply does not depend on the mode; the mode, the session it
\* holds and the hardware are left as they were.
C17_ModeIndependent ==
    \A q \in ModeFreeRequests : \A md \in {mode, Idle, BootPending} :
        AnsweredIn([M EXCEPT !.mode = md], q)

\* a session with a chunk in, over settings that have been written
C17_Witness ==
    /\ InBootLoad
    /\ Len(accepted) = 1
    /\ declared # << >>
    /\ process(M, [tag |-> "GetSettings"]).resp.data = settings

\* ---- C18
AtStart(md) == md.addr_current = md.addr_start

AtEnd(md) == md.addr_current = md.addr_start + md.length

StatusReply(st) == [ok |-> TRUE, tag |-> "Status", status |-> st]

\* the reply in Idle and BootPending, at the start of a session and inside it
StatusDerived(md, resp, partial) ==
    /\ md.tag # "BootLoad" => resp = StatusReply([tag |-> "Idle"])
    /\ md.tag = "BootLoad" /\ AtStart(md) =>
          resp = StatusReply([tag |-> "Started", start_addr |-> md.addr_start,
                              length |-> md.length, crc32 |-> md.exp_crc])
    /\ md.tag = "BootLoad" /\ ~AtStart(md) /\ ~AtEnd(md) =>
          resp = StatusReply([tag |-> "Loading", start_addr |-> md.addr_start,
                              next_addr |-> md.addr_current, partial_crc32 |-> partial,
                              expected_crc32 |-> md.exp_crc])

AwaitingComplete(resp) == resp = StatusReply([tag |-> "AwaitingComplete"])

\* C18: GetStatus replies Status(Idle) in Idle and in BootPending; in a
\* session it replies Started{start_addr, length, crc32 = exp_crc} when
\* addr_current = addr_start, AwaitingComplete when addr_current =
\* addr_start + length and addr_current # addr_start, and otherwise
\* Loading{start_addr, next_addr = addr_current, partial_crc32 = the CRC of
\* the chunks accepted so far, expected_crc32 = exp_crc}.
C18_GetStatus ==
    /\ StatusDerived(mode, process(M, GetStatusRequest).resp, Checksum(Concat(accepted)))
    /\ InBootLoad /\ AtEnd(mode) /\ ~AtStart(mode) =>
          AwaitingComplete(process(M, GetStatusRequest).resp)

\* C18 as stated: AwaitingComplete whenever addr_current = addr_start + length
C18_AsStated ==
    /\ StatusDerived(mode, process(M, GetStatusRequest).resp, Checksum(Concat(accepted)))
    /\ InBootLoad /\ AtEnd(mode) =>
          AwaitingComplete(process(M, GetStatusRequest).resp)

\* a session with its whole image in, reported as AwaitingComplete
C18_Witness ==
    /\ InBootLoad
    /\ Len(accepted) = 2
    /\ AtEnd(mode)
    /\ AwaitingComplete(process(M, GetStatusRequest).resp)

\* ---- C19
NextAddr(md, chunks) == md.addr_start + Len(chunks) * PARAMETERS.data_chunk_size

LoadingOrAwaiting(resp, next_addr) ==
    /\ resp.ok
    /\ resp.tag = "Status"
    /\ \/ resp.status.tag = "Loading" /\ resp.status.next_addr = next_addr
       \/ resp.status.tag = "AwaitingComplete"

\* C19: in a session in which at least one chunk has been accepted,
\* addr_current = addr_start + (chunks accepted in the session) *
\* data_chunk_size, and GetStatus reports Loading with that next_addr or
\* AwaitingComplete, never Started and never Idle.
C19_StatusAfterChunk ==
    InBootLoad /\ Len(accepted) >= 1 =>
        /\ mode.addr_current = NextAddr(mode, accepted)
        /\ LoadingOrAwaiting(process(M, GetStatusRequest).resp, NextAddr(mode, accepted))

\* two chunks of a three-chunk image are in: Loading
C19_Witness ==
    /\ InBootLoad
    /\ Len(accepted) = 2
    /\ mode.length = 3 * PARAMETERS.data_chunk_size
    /\ process(M, GetStatusRequest).resp.status.tag = "Loading"

\* ---- C20
\* the settings page with data over its first bytes
PageWith(page, data) == data \o SubSeq(page, Len(data) + 1, Len(page))

SettingsWritten(m, data, out) ==
    /\ IF Len(data) > PARAMETERS.settings_max
       THEN /\ out.resp = [ok |-> FALSE, tag |-> "SettingsTooLong",
                           max |-> PARAMETERS.settings_max, actual |-> Len(data)]
            /\ out.calls = << >>
            /\ out.settings = m.settings
       ELSE /\ out.resp = [ok |-> TRUE, tag |-> "SettingsAccepted", data_len |-> Len(data)]
            /\ out.calls = << [fn |-> "write_settings", data |-> data] >>
            /\ out.settings = PageWith(m.settings, data)
    /\ out.mode = m.mode
    /\ out.flash = m.flash
    /\ ~out.panic

\* C20: WriteSettings{data} with more than settings_max bytes replies
\* SettingsTooLong{max = settings_max, actual = |data|} and calls nothing;
\* with settings_max bytes or fewer it calls write_settings(data) once and
\* replies SettingsAccepted{data_len = |data|}.  In Idle, in a session and in
\* BootPending alike, the mode, the session and the flash stay as they were.
C20_WriteSettings ==
    \A rq \in WriteRequests : SettingsWritten(M, rq.data, process(M, rq))

\* settings_max bytes have been written during a session with a chunk in
C20_Witness ==
    /\ InBootLoad
    /\ Len(accepted) = 1
    /\ SubSeq(settings, 1, PARAMETERS.settings_max) = RawSettings(PARAMETERS.settings_max)
    /\ \E rq \in WriteRequests : Len(rq.data) > PARAMETERS.settings_max
    /\ \E rq \in WriteRequests : Len(rq.data) < PARAMETERS.settings_max

\* ---- C21
\* the halves of a u32
Hi16(w) == w[3] + 256 * w[4]

Lo16(w) == w[1] + 256 * w[2]

\* w < n and w <= n for a natural n below 2^31
WordBelow(w, n) == Hi16(w) < 32768 /\ Hi16(w) * 65536 + Lo16(w) < n

WordWithin(w, n) == Hi16(w) < 32768 /\ Hi16(w) * 65536 + Lo16(w) <= n

\* a + b <= n in the naturals, for a natural n below 2^31
SumWithin(a, b, n) ==
    /\ Hi16(a) + Hi16(b) + (Lo16(a) + Lo16(b)) \div 65536 < 32768
    /\ (Hi16(a) + Hi16(b) + (Lo16(a) + Lo16(b)) \div 65536) * 65536
          + ((Lo16(a) + Lo16(b)) % 65536) <= n

ReadVerdict(range, start_addr, len) ==
    IF WordBelow(start_addr, range[1]) THEN "BadRangeStart"
    ELSE IF ~SumWithin(start_addr, len, range[2]) THEN "BadRangeEnd"
    ELSE "ReadRange"

ReadAnswered(m, rq, verdict, out) ==
    /\ out.mode = m.mode
    /\ out.flash = m.flash
    /\ out.settings = m.settings
    /\ IF verdict = "ReadRange"
       THEN /\ out.resp = [ok |-> TRUE, tag |-> "ReadRange",
                           start_addr |-> rq.start_addr, len |-> rq.len,
                           data |-> [i \in 1..WordToNat(rq.len) |->
                                        m.flash[WordToNat(rq.start_addr) + i]]]
            /\ out.calls = << CallRead(WordToNat(rq.start_addr), WordToNat(rq.len)) >>
            /\ ~out.panic
       ELSE /\ out.resp = Err(verdict)
            /\ out.calls = << >>

\* a second valid_flash_range, whose start is above 0
ReadWindows == {PARAMETERS.valid_flash_range, PARAMETERS.valid_app_range}

RECURSIVE U32Named(_, _)
\* the values of the U32 records of a name, in order
U32Named(items, name) ==
    IF items = << >> THEN << >>
    ELSE (IF Head(items).name_ascii = name /\ Head(items).val.tag = "U32"
          THEN << Head(items).val.v >> ELSE << >>)
         \o U32Named(Tail(items), name)

\* a power of two from data_chunk_size to the length of the application range
AppLenInBounds(w) ==
    /\ WordIsSmall(w)
    /\ \E e \in 0..30 : WordToNat(w) = 2 ^ e
    /\ PARAMETERS.data_chunk_size <= WordToNat(w)
    /\ WordToNat(w) <= AppHi - AppLo

\* one app_len, one app_crc, app_len in bounds
AppInfoGood(lens, crcs) == Len(lens) = 1 /\ Len(crcs) = 1 /\ AppLenInBounds(lens[1])

ImageMatches(fl, len, crc) == Checksum(SubSeq(fl, AppLo + 1, AppLo + WordToNat(len))) = crc

BootableIff(fl, lens, crcs, st) ==
    /\ st.tag = "Yes" <=> AppInfoGood(lens, crcs) /\ ImageMatches(fl, lens[1], crcs[1])
    /\ st.tag = "Yes" => st.crc32 = crcs[1] /\ st.length = WordToNat(lens[1])
    /\ AppInfoGood(lens, crcs) /\ ~ImageMatches(fl, lens[1], crcs[1]) =>
          st = [tag |-> "NoInvalidCrc"]

IsBootableDone == output # << >> /\ output[1].fn = "is_bootable"

\* C22: is_bootable returns Yes{crc32, length} iff the settings block holds
\* exactly one U32 record named app_len and exactly one named app_crc,
\* app_len is a power of two with data_chunk_size <= app_len <=
\* valid_app_range.hi - valid_app_range.lo, and the CRC-32 of the flash from
\* valid_app_range.lo over app_len bytes is app_crc; then crc32 = app_crc and
\* length = app_len.  When all of that holds but the CRC, it returns
\* NoInvalidCrc.  A page that holds no block gives no Yes.
C22_IsBootableIff ==
    IsBootableDone =>
        /\ ~output[1].ret.panic
        /\ IF input.kind = "block"
           THEN BootableIff(flash, U32Named(input.items, app_len_name),
                            U32Named(input.items, app_crc_name), output[1].ret.status)
           ELSE output[1].ret.status.tag # "Yes"

\* is_bootable said Yes for the image of two chunks, declared among others
C22_Witness ==
    /\ IsBootableDone
    /\ input.kind = "block"
    /\ Len(input.items) = 4
    /\ output[1].ret.status = [tag |-> "Yes", crc32 |-> ImageCrc[2],
                               length |-> 2 * data_chunk_size]

\* ---- C23
\* the first failing check, or Yes
AppInfoExpected(lens, crcs) ==
    IF Len(lens) > 1 \/ Len(crcs) > 1 THEN [tag |-> "NoDuplicateSettings"]
    ELSE IF Len(lens) = 0 \/ Len(crcs) = 0 THEN [tag |-> "NoMissingSettings"]
    ELSE IF ~AppLenInBounds(lens[1]) THEN [tag |-> "NoInvalidSettings"]
    ELSE [tag |-> "Yes", crc32 |-> crcs[1], length |-> WordToNat(lens[1])]

RECURSIVE AppRecords(_)
\* the records named app_len or app_crc, in order
AppRecords(items) ==
    IF items = << >> THEN << >>
    ELSE (IF Head(items).name_ascii \in {app_len_name, app_crc_name}
          THEN << Head(items) >> ELSE << >>)
         \o AppRecords(Tail(items))

AppInfoDone == output # << >> /\ output[1].fn = "get_app_info"

\* C23: get_app_info reports the first failing check in this order: a page
\* that holds no readable block (shorter than 8 bytes, a length beyond the
\* page, a CRC mismatch, as on a never-written page) gives NoMissingSettings;
\* a second U32 record named app_len or app_crc gives NoDuplicateSettings,
\* also when the other name is absent; app_len or app_crc absent gives
\* NoMissingSettings; app_len out of bounds or no power of two gives
\* NoInvalidSettings.  Records of other names change nothing: the block
\* without them gives the same result.
C23_AppInfoOrder ==
    AppInfoDone =>
        /\ ~output[1].ret.panic
        /\ IF input.kind = "raw"
           THEN output[1].ret.status = [tag |-> "NoMissingSettings"]
           ELSE /\ output[1].ret.status =
                      AppInfoExpected(U32Named(input.items, app_len_name),
                                      U32Named(input.items, app_crc_name))
                /\ output[1].ret =
                      get_app_info(PageOf(AppRecords(input.items), << >>), PARAMETERS)

\* app_len twice and no app_crc: the duplicate is reported, not the absence
C23_Witness ==
    /\ AppInfoDone
    /\ input.kind = "block"
    /\ Len(U32Named(input.items, app_len_name)) = 2
    /\ Len(U32Named(input.items, app_crc_name)) = 0
    /\ output[1].ret.status = [tag |-> "NoDuplicateSettings"]

\* ---- C24
SessionKept(md, out) ==
    /\ out.mode.tag = "BootLoad"
    /\ out.mode.addr_start = md.addr_start
    /\ out.mode.length = md.length
    /\ out.mode.exp_crc = md.exp_crc

\* the replies with which a request ends the session
EndsSession(rq, resp) ==
    \/ rq.tag = "CompleteBootload" /\ resp.tag \in {"ConfirmComplete", "BadFullCrc"}
    \/ rq.tag = "AbortBootload" /\ resp.tag = "BootloadAborted"
    \/ rq.tag = "Boot" /\ resp.tag = "ConfirmBootCmd"

SessionOutlives(md, rq, out) ==
    IF EndsSession(rq, out.resp) THEN out.mode.tag # "BootLoad" ELSE SessionKept(md, out)

\* C24: a session is ended only by CompleteBootload (ConfirmComplete or
\* BadFullCrc), by AbortBootload or by Boot(cmd); after any other request
\* processed in BootLoad, a CompleteBootload answered IncompleteLoad and a
\* refused StartBootload included, the machine is in BootLoad with the same
\* addr_start, length and exp_crc.
C24_SessionLifetime ==
    InBootLoad => \A rq \in Requests : SessionOutlives(mode, rq, process(M, rq))

\* C24 as stated: only CompleteBootload and AbortBootload end a session
C24_AsStated ==
    InBootLoad =>
        \A rq \in Requests :
            rq.tag \notin {"CompleteBootload", "AbortBootload"} =>
                SessionKept(mode, process(M, rq))

\* a session with a chunk in, which a DataChunk and a failed CompleteBootload
\* leave alive and a Boot ends
C24_Witness ==
    /\ InBootLoad
    /\ Len(accepted) = 1
    /\ \E rq \in DataRequests : process(M, rq).resp.tag = "ChunkAccepted"
    /\ \E rq \in CompleteRequests : process(M, rq).resp.tag = "IncompleteLoad"
    /\ \E rq \in BootRequests : process(M, rq).mode = BootPending

\* C27: what encode made, decode_in_place gives back, for every Request and
\* every Result<Response, ResponseError>; and the frame holds 0x00 as its
\* last byte only.
IsValue == input.kind \in {"Request", "Result"}

ZeroOnlyLast(frame) ==
    /\ frame # << >>
    /\ \A i \in 1..Len(frame) : frame[i] = 0 <=> i = Len(frame)

C27_RoundTrip ==
    IsValue =>
        /\ Len(output) >= 1 => ZeroOnlyLast(output[1])
        /\ Len(output) = 2 => output[2] = input.v

C27_Witness ==
    /\ IsValue
    /\ Len(output) = 2
    /\ Len(output[1]) > CobsRun + 2
    /\ input.v.tag = "DataChunk"

\* ---- C26
\* the Error a frame that does not decode is built to give
ExpectedError(f) ==
    IF f.why = "Crc"
    THEN [tag |-> "Crc", expected |-> f.trailer, actual |-> Checksum(f.body)]
    ELSE [tag |-> f.why]

\* out is the LineNak of e and leaves m as it was
LineNaked(m, e, out) ==
    /\ out.resp = [ok |-> FALSE, tag |-> "LineNak", error |-> e]
    /\ out.mode = m.mode
    /\ out.flash = m.flash
    /\ out.settings = m.settings
    /\ out.calls = << >>
    /\ ~out.panic

\* C26: a frame whose four-byte trailer is not the CRC of its bytes is
\* answered LineNak(Crc{expected, actual}), expected being the trailer as
\* received and actual the CRC computed, and changes nothing; a frame that
\* fails COBS decoding, is shorter than five bytes or does not deserialize is
\* answered LineNak(Cobs), LineNak(Underfill), LineNak(PostcardDecode) and
\* changes nothing either.
C26_LineNak ==
    \A f \in BadFrames : LineNaked(M, ExpectedError(f), process_buf(M, f.frame))

\* a session that has taken a chunk answers a frame with a wrong trailer
C26_Witness ==
    /\ InBootLoad
    /\ Len(accepted) = 1
    /\ \E f \in CrcFrames :
          /\ f.trailer # Checksum(f.body)
          /\ process_buf(M, f.frame).resp.error.expected = f.trailer
          /\ process_buf(M, f.frame).mode = mode
    /\ \A why \in {"Cobs", "Underfill", "PostcardDecode"} :
          \E f \in OtherBadFrames : f.why = why

\* ---- C25
\* C25: every call of process produces a reply: whatever the request, and
\* whatever frame fails to decode, the reply is encoded into the buffer and
\* process returns Some(frame).
C25_AlwaysReplies ==
    /\ \A rq \in Requests : respond(process(M, rq).resp, BufSize).some
    /\ \A f \in BadFrames : respond(process_buf(M, f.frame).resp, BufSize).some

\* ---- C28
\* block is crc32_le(4), length_le(4), payload: the length counts the payload
\* and the CRC is over the length bytes followed by the payload
BlockLayout(block, payload) ==
    /\ Len(block) = 8 + Len(payload)
    /\ SubSeq(block, 9, Len(block)) = payload
    /\ SubSeq(block, 5, 8) = ToWord(Len(payload))
    /\ SubSeq(block, 1, 4) = Checksum(ToWord(Len(payload)) \o payload)

\* C28: settings_from_raw(settings_to_vec(xs)) succeeds and its iterator
\* yields exactly the records xs, as many and in the same order; the block is
\* crc32_le, length_le, payload, the CRC being over length_le then payload.
C28_SettingsRoundTrip ==
    input.kind = "settings" =>
        /\ Len(output) >= 1 => BlockLayout(output[1], EncodeSettings(input.v.items))
        /\ Len(output) = 2 => output[2] = [ok |-> TRUE, items |-> input.v.items]

\* the four records of settings_smoke have been read back
C28_Witness ==
    /\ input.kind = "settings"
    /\ input.v.items = SmokeSettings
    /\ Len(output) = 2
    /\ Len(output[2].items) = 4

\* ---- C29
\* the len bytes from start lie in the application range and in the window
\* [addr_start, addr_start + length) of session s
Within(start, len, s) ==
    /\ s.tag = "BootLoad"
    /\ start >= AppLo
    /\ start >= s.addr_start
    /\ start + len <= s.addr_start + s.length

\* a call that erases or programs does so within the session it belongs to:
\* the one just started for an erase, the one in progress for a chunk
CallWithin(m, out, call) ==
    CASE call.fn = "erase_range" -> Within(call.start, call.len, out.mode)
      [] call.fn = "flash_range" -> Within(call.start, Len(call.data), m.mode)
      [] OTHER -> TRUE

CallsWithin(m, out) == \A k \in 1..Len(out.calls) : CallWithin(m, out, out.calls[k])

\* the flash below the application range is as it was at the start
BelowPristine == \A i \in 1..AppLo : flash[i] = FlashFill

\* the flash from n chunks into the application range on is as it was at
\* the start
AbovePristine(fl, n) ==
    \A i \in (AppLo + n * data_chunk_size + 1)..Len(fl) : fl[i] = FlashFill

\* a session longer than n chunks
LongerThan(md, n) == md.tag = "BootLoad" /\ md.length > n * data_chunk_size

\* a step outside every session longer than n chunks leaves the flash
\* beyond n chunks as it was at the start
KeepsAbove(n) ==
    (AbovePristine(flash, n) /\ ~LongerThan(mode, n) /\ ~LongerThan(mode', n))
        => AbovePristine(flash', n)

\* C29: no request erases or programs flash outside [valid_app_range.lo,
\* valid_app_range.lo + length) of a started session: every erase and
\* program call is within the window of the session in effect; the flash
\* below valid_app_range.lo keeps its initial contents, and so does the flash
\* above the end of every session started so far.
C29_FlashFrame ==
    /\ [](BelowPristine /\ \A rq \in Requests : CallsWithin(M, process(M, rq)))
    /\ [][\A n \in 0..AppChunks : KeepsAbove(n)]_vars

\* one chunk of a one-chunk session is in flash, and the flash on both sides
\* of the session is as it was at the start
C29_Witness ==
    /\ InBootLoad
    /\ mode.length = data_chunk_size
    /\ Len(accepted) = 1
    /\ \A i \in (AppLo + 1)..(AppLo + data_chunk_size) : flash[i] = accepted[1][i - AppLo]
    /\ BelowPristine
    /\ AbovePristine(flash, 1)
    /\ AppLo > 0

\* ---- C30
\* the buffer is full and the frame has not ended
Overfull == pc = "byte" /\ idx = BufLen

\* the step drops the bytes and goes on reading: process is not called,
\* nothing is written, the machine is as it was
Dropped ==
    /\ idx' = 0
    /\ pc' = "byte"
    /\ tx' = tx
    /\ UNCHANGED machine

\* C30: when the assembly buffer is full before a 0x00 has come, the bytes
\* are dropped, process is not called, no response is written, the mode is
\* unchanged and accumulation starts again from an empty buffer; process is
\* called only on a buffer whose last received byte is the terminator.
C30_Overfill ==
    /\ [](pc = "process" => byte = 0 /\ idx >= 1 /\ idx <= BufLen)
    /\ [][Overfull => Dropped]_vars

\* a session is open and the loop reads again after dropping a full buffer
C30_Witness ==
    /\ InBootLoad
    /\ pc = "byte"
    /\ idx = 0
    /\ byte = 1
    /\ tx = 0

\* ---- C31
\* the flash fl holds, from the start of session s on, the chunks one after
\* the other, chunk k at addr_start + (k - 1) * data_chunk_size, and they
\* fill the session's range, whose CRC-32 is the one the session declared
HoldsImage(fl, s, chunks) ==
    /\ Len(chunks) * data_chunk_size = s.length
    /\ \A k \in 1..Len(chunks) :
          read_range(fl, s.addr_start + (k - 1) * data_chunk_size, data_chunk_size)
              = chunks[k]
    /\ read_range(fl, s.addr_start, s.length) = Concat(chunks)
    /\ Checksum(read_range(fl, s.addr_start, s.length)) = s.exp_crc

Confirmed(m, out) ==
    out.resp.tag = "ConfirmComplete" =>
        /\ m.mode.tag = "BootLoad"
        /\ ~out.panic
        /\ HoldsImage(out.flash, m.mode, accepted)

\* C31: when CompleteBootload is answered ConfirmComplete, the flash from
\* addr_start to addr_start + length holds exactly the payloads of the chunks
\* accepted in the session, chunk k at addr_start + k * data_chunk_size, and
\* the CRC-32 of that range is the crc32 declared in StartBootload.
C31_FlashHoldsImage == \A rq \in CompleteRequests : Confirmed(M, process(M, rq))

\* a session of two different chunks is about to be confirmed
C31_Witness ==
    /\ Complete
    /\ Len(accepted) = 2
    /\ accepted[1] # accepted[2]
    /\ process(M, CompleteNoBoot).resp.tag = "ConfirmComplete"
    /\ HoldsImage(flash, mode, accepted)

\* ---- C32
\* the machine as a call of process leaves it
After(out) == [mode |-> out.mode, flash |-> out.flash, settings |-> out.settings]

\* the call put the machine in BootPending
Enters(m, out) == m.mode # BootPending /\ out.mode = BootPending

\* check_after_send, called after the reply has gone out, boots
BootFollows(out) == ~out.panic /\ check_after_send(After(out)).booted

\* the reply is a confirmation with will_boot as given
Confirms(out, tags, w) == out.resp.tag \in tags /\ out.resp.will_boot = w

\* a boot follows a request that entered BootPending only if its reply, one
\* of tags, said will_boot = true, and never a reply, one of tags, that said
\* will_boot = false
BootAsTold(m, out, tags) ==
    /\ Enters(m, out) /\ BootFollows(out) =>
          Confirms(out, {"ConfirmComplete", "ConfirmBootCmd"}, TRUE)
          \/ out.resp.tag \in {"ConfirmComplete", "ConfirmBootCmd"} \ tags
    /\ m.mode # BootPending /\ Confirms(out, tags, FALSE) => ~BootFollows(out)

\* C32: check_after_send calls boot only if the mode is BootPending; a
\* CompleteBootload puts the machine there only with a ConfirmComplete that
\* carried will_boot = true, and a ConfirmComplete with will_boot = false is
\* not followed by a boot; Boot(cmd) puts the machine there whatever the
\* will_boot of its ConfirmBootCmd.
C32_BootAsTold ==
    /\ \A rq \in Requests : BootAsTold(M, process(M, rq), {"ConfirmComplete"})
    /\ check_after_send(M).booted <=> mode = BootPending
    /\ \A rq \in BootRequests : Enters(M, process(M, rq)) => BootFollows(process(M, rq))

\* the claim as stated: for ConfirmBootCmd as for ConfirmComplete
C32_AsStated ==
    \A rq \in Requests :
        BootAsTold(M, process(M, rq), {"ConfirmComplete", "ConfirmBootCmd"})

\* a loaded image that is not declared bootable is completed with
\* BootIfBootable: the reply says will_boot = false and no boot follows,
\* while a Boot(BootIfBootable) in the same state is followed by one
C32_Witness ==
    /\ Complete
    /\ Len(accepted) = 1
    /\ Confirms(process(M, [tag |-> "CompleteBootload", boot |-> "BootIfBootable"]),
                {"ConfirmComplete"}, FALSE)
    /\ ~BootFollows(process(M, [tag |-> "CompleteBootload", boot |-> "BootIfBootable"]))
    /\ Confirms(process(M, [tag |-> "Boot", cmd |-> "BootIfBootable"]),
                {"ConfirmBootCmd"}, FALSE)
    /\ BootFollows(process(M, [tag |-> "Boot", cmd |-> "BootIfBootable"]))

\* ---- C33
\* call programs the chunk that comes after the n programmed since the
\* erase of session s: a whole chunk, next to the last one, inside the range
\* the session erased, and on flash fl that is still erased there
NextChunk(fl, s, n, call) ==
    /\ Len(call.data) = data_chunk_size
    /\ call.start = s.addr_start + n * data_chunk_size
    /\ call.start >= s.addr_start
    /\ call.start + data_chunk_size <= s.addr_start + s.length
    /\ n < s.length \div data_chunk_size
    /\ IsErased(fl, call.start, data_chunk_size)

\* the flash_range calls of a call of process: none out of a session, and in
\* one at most one, which programs the next chunk
ProgramsNext(m, out, n) ==
    \A k \in 1..Len(out.calls) :
        out.calls[k].fn = "flash_range" =>
            /\ m.mode.tag = "BootLoad"
            /\ Len(out.calls) = 1
            /\ ~out.panic
            /\ NextChunk(m.flash, m.mode, n, out.calls[k])

\* C33: every flash_range call programs one data_chunk_size region inside
\* the range erased by the current session's StartBootload, not programmed
\* since that erase; the chunks of a session are programmed in strictly
\* increasing contiguous address order, no address twice, and at most
\* length / data_chunk_size of them.
C33_ProgramOnce ==
    /\ \A rq \in Requests : ProgramsNext(M, process(M, rq), Len(accepted))
    /\ InBootLoad =>
          /\ Len(accepted) <= mode.length \div data_chunk_size
          /\ IsErased(flash, mode.addr_current, mode.addr_start + mode.length - mode.addr_current)

\* the second chunk of a three-chunk session is about to be programmed,
\* and a chunk for the address already programmed is not
C33_Witness ==
    /\ InBootLoad
    /\ mode.length = 3 * data_chunk_size
    /\ Len(accepted) = 1
    /\ \E rq \in DataRequests :
          /\ rq.data_addr = mode.addr_start + data_chunk_size
          /\ Len(process(M, rq).calls) = 1
    /\ \A rq \in DataRequests :
          rq.data_addr = mode.addr_start => process(M, rq).calls = << >>

\* ---- C34
\* C34: with valid_app_range.lo < valid_app_range.hi and a data_chunk_size
\* that is a power of two not below 8, no u32 addition or subtraction of the
\* handlers or of is_bootable leaves 0..2^32 - 1, whatever the request fields
\* and the declared app_len: addr_start + length, addr_current +
\* data_chunk_size, addr_current - addr_start and valid_app_range.lo +
\* app_len stay in range.
C34_NoOverflow ==
    Len(output) = 1 =>
        /\ output[1].ok
        /\ output[1].started =>
              /\ checked_add(output[1].addr_start, output[1].length).some
              /\ WordLe(output[1].addr_start, output[1].addr_current)
              /\ WordLe(output[1].addr_current,
                        checked_add(output[1].addr_start, output[1].length).v)

\* a session that ends at 2^32 - 1 has taken its last chunk and is completed
C34_Witness ==
    /\ Len(output) = 1
    /\ output[1].started
    /\ output[1].completed
    /\ output[1].chunks = 3
    /\ output[1].addr_current = WordMax
    /\ input.params.hi = WordMax

\* ---- C35
\* the reply to a ReadRange longer than read_max is an error, and no
\* read_range call is longer than read_max
WithinReadMax(rq, out) ==
    /\ WordLess(ToWord(PARAMETERS.read_max), rq.len) =>
          ~(out.resp.ok /\ out.resp.tag = "ReadRange")
    /\ \A i \in 1..Len(out.calls) :
          out.calls[i].fn = "read_range" => out.calls[i].len <= PARAMETERS.read_max

\* C35: a ReadRange request with len above Parameters.read_max is never
\* answered with a successful ReadRange response, and read_range is never
\* called with a length above read_max.
C35_ReadMax == \A rq \in ReadRequests : WithinReadMax(rq, process(M, rq))

\* ---- C36
\* out leaves the mode with its session and running digest, the flash and
\* the settings page as they were, and calls nothing but reads
OnlyReads(m, out) ==
    /\ out.mode = m.mode
    /\ out.flash = m.flash
    /\ out.settings = m.settings
    /\ \A i \in 1..Len(out.calls) : out.calls[i].fn \in {"read_range", "read_settings_raw"}

\* C36: Ping, GetParameters, GetSettings, GetStatus, ReadRange and
\* IsBootable leave the mode, every session field with the running digest,
\* the flash and the settings page unchanged, in every mode, and issue no
\* flash_range, erase_range or write_settings call.
C36_QueriesReadOnly ==
    \A rq \in QueryRequests \cup ReadRequests : OnlyReads(M, process(M, rq))

\* a session with a chunk in, over settings that declare an app: IsBootable
\* reads the app and a ReadRange is answered with data
C36_Witness ==
    /\ InBootLoad
    /\ Len(accepted) = 1
    /\ Len(process(M, [tag |-> "IsBootable"]).calls) > 1
    /\ \E rq \in ReadRequests :
          /\ process(M, rq).resp.ok
          /\ Len(process(M, rq).calls) = 1

\* ---- C37
\* the read_range calls among calls, in the order they were made
ReadCalls(calls) == SelectSeq(calls, LAMBDA c : c.fn = "read_range")

\* reads are app_len / data_chunk_size reads of data_chunk_size bytes, from
\* valid_app_range.lo upwards chunk after chunk, all below
\* valid_app_range.lo + app_len
ReadsApp(reads, app_len) ==
    /\ Len(reads) * data_chunk_size = app_len
    /\ \A i \in 1..Len(reads) :
          /\ reads[i] = CallRead(AppLo + (i - 1) * data_chunk_size, data_chunk_size)
          /\ reads[i].start + reads[i].len <= AppLo + app_len

\* what is_bootable read, against what get_app_info made of the settings
ReadsAsDeclared(ret, info) ==
    IF info.tag = "Yes"
    THEN ReadsApp(ReadCalls(ret.calls), info.length) /\ ~ret.panic
    ELSE ReadCalls(ret.calls) = << >>

\* C37: is_bootable terminates; when the settings pass the app-info checks
\* it makes exactly app_len / data_chunk_size read_range calls of
\* data_chunk_size bytes each, at valid_app_range.lo, valid_app_range.lo +
\* data_chunk_size, ... in ascending order, none at or beyond
\* valid_app_range.lo + app_len; when the checks fail it makes no read_range
\* call.
C37_BootableReads ==
    (Len(output) = 1 /\ output[1].fn = "is_bootable") =>
        ReadsAsDeclared(output[1].ret, get_app_info(settings, PARAMETERS).status)

\* is_bootable has read an app of two chunks
C37_Witness ==
    /\ Len(output) = 1
    /\ output[1].fn = "is_bootable"
    /\ get_app_info(settings, PARAMETERS).status.tag = "Yes"
    /\ Len(ReadCalls(output[1].ret.calls)) = 2

====
